---- MODULE Spec2Model ----
(***************************************************************************)
(* Trust-level verification engine of moltlaunch-verify.                   *)
(*                                                                         *)
(* The model follows routes/selfVerify.js (the six request handlers),      *)
(* db.js (the row store), lib/mobile.js (the in-memory challenge map) and  *)
(* lib/solana.js (the ledger client).  A handler runs to its next `await`  *)
(* in one step; each `await` on an external call is a point at which other *)
(* requests, anchor completions and the clock may interleave.              *)
(*                                                                         *)
(* Time is counted in minutes.  Request bodies are taken to have passed    *)
(* the field-presence checks at the top of each handler.                   *)
(***************************************************************************)
EXTENDS Integers, FiniteSets, Sequences, Bags, TLC

\* ---------------------------------------------------------------- bounds
MaxInFlight == 2        \* requests suspended at an await at the same time
Serial == 1             \* the same, in the runs that take requests one by one
MaxTime == 7            \* minutes of clock modelled
MaxNonces == 2          \* mobile challenges issued per agent
MaxAnchors == 1         \* outstanding fire-and-forget ledger writes per memo
MaxSignals == 2         \* rows per (agent, signal type) in sybil_signals
MaxAudit == 2           \* rows per (agent, action) in audit_log
MaxPending == 1         \* rows per memo in pending_anchors
QuotaTime == 3          \* the last clock value of the registration-quota runs
MaxOther == 1           \* registrations sent from the second address
ExpiryTime == 2         \* the last clock value of the expiry runs
MemoTime == 3         \* the last clock value of the memo runs

\* ------------------------------------------------------ program constants
CHALLENGE_EXPIRY_MS == 5
GRACE_MS == 1
SEC_MS == 2
MIN_ID_LEN == 3
MAX_ID_LEN == 64
DAILY_LIMIT == 10
DAY_MS == 2             \* clock units in one UTC calendar day
EXPIRY_DAYS == 30       \* `Date.now() + 30 * 24 * 60 * 60 * 1000`
SYBIL_THRESHOLD == 3000 \* 0.3, uniqueness scores are scaled by 10000
RETRY_CEILING == 5      \* `WHERE retries < 5`

Agents == {"a1", "a2"}
Registrants == {"a1"}   \* the ids that clients send requests for
Origins == {1}
QuotaOrigins == {1, 2}  \* the client addresses of the registration-quota runs
\* the ids registered in the registration-quota runs, in the order in which
\* clients choose them
IdOrder == <<"a1", "a2", "a3", "a4", "a5", "a6", "a7", "a8", "a9", "a10", "a11">>
Ids == {IdOrder[i] : i \in 1..Len(IdOrder)}
Endpoints == {1, 2}
Providers == {"mock", "nosana"}
Devices == {1}
Pubkeys == {1}
Levels == 0..5
SignalTypes == {"ip_cluster", "endpoint_cluster", "behavioral_similarity"}
AuditActions == {"register", "confirm", "verify", "behavioral", "depin_binding", "mobile_verify"}
Uniqueness == {2999, 3000, 10000}

VARIABLES agents, ext, sybil_signals, audit_log, pending_anchors,
          challenges, issued, inflight, anchors, now, resp

vars == <<agents, ext, sybil_signals, audit_log, pending_anchors,
          challenges, issued, inflight, anchors, now, resp>>

\* the part of the state kept by db.js
dbvars == <<agents, ext, sybil_signals, audit_log, pending_anchors>>

\* ------------------------------------------------------------ row shapes
NoAgent ==
  [present |-> FALSE, level |-> 0, level_label |-> "", revoked |-> 0, challenge_code |-> 0,
   challenge_token |-> 0, api_endpoint |-> 0, code_url |-> 0,
   on_chain_sig |-> 0, ip_hash |-> <<>>, registered_at |-> 0, expires_at |-> 0]

NoExt ==
  [present |-> FALSE, fingerprint |-> 0, fingerprint_uniqueness |-> 0,
   depin_provider |-> "", depin_device_pda |-> 0, depin_binding_hash |-> <<>>,
   depin_on_chain_sig |-> 0, mobile_device_pubkey |-> 0, mobile_verified |-> 0,
   mobile_on_chain_sig |-> 0]

NoChallenge == [present |-> FALSE, challenge |-> 0, expiresAt |-> 0, used |-> FALSE]

Idle ==
  [op |-> "idle", agent |-> "", pc |-> "", token |-> 0, apiEndpoint |-> 0,
   errors |-> {}, provider |-> "", devicePDA |-> 0, bindingTime |-> 0,
   devicePubkey |-> 0, challengeResponse |-> 0]

NoResp ==
  [op |-> "none", agent |-> "", status |-> 0, success |-> FALSE, level |-> -1,
   requiredLevel |-> -1, detail |-> "", failures |-> {}, revoked |-> FALSE,
   levelLabel |-> ""]

\* res.status(status).json({...}): `detail` is the error of a failure, and
\* "already" for the idempotent success of a handler that found the agent at
\* or above its target level; `requiredLevel` is the prior level a 400
\* rejection names, in its requiredLevel field or (verify) in its error text
\* only; -1 stands for a field the body does not have.
Response(op, a, status, success, level, requiredLevel, detail) ==
  [op |-> op, agent |-> a, status |-> status, success |-> success,
   level |-> level, requiredLevel |-> requiredLevel, detail |-> detail,
   failures |-> {}, revoked |-> FALSE, levelLabel |-> ""]

TransitionOps == {"confirm", "verify", "behavioral", "depin", "mobile"}

Target(op) ==
  CASE op = "confirm" -> 1
    [] op = "verify" -> 2
    [] op = "behavioral" -> 3
    [] op = "depin" -> 4
    [] op = "mobile" -> 5

\* sendAndConfirmTransaction returns a signature that identifies the memo
\* it anchored; a signature is modelled by the level of that memo.
Sig(level) == level

\* ------------------------------------------------------------------ db.js
getAgent(id) == agents[id]

\* ------------------------------------- the handlers' gates on the agent row
\* the revocation gate left out
isRevoked_skipped(agent) == FALSE

\* an agent holding a Sybil signal treated as revoked
isRevoked_orFlagged(agent) ==
  \/ agent.revoked # 0
  \/ \E a \in DOMAIN agents :
        agents[a] = agent /\ \E t \in SignalTypes : sybil_signals[a][t] > 0

\* `if (agent.revoked)`
isRevoked(agent) == agent.revoked # 0

\* the idempotency gate comparing strictly
alreadyAt_strict(agent, target) == agent.level > target

\* `if (agent.level >= target)`: the idempotent success
alreadyAt(agent, target) == agent.level >= target

\* the precondition gate letting an agent skip one level
belowPrior_skipOne(agent, target) == agent.level < target - 2

\* `if (agent.level < target - 1)`: the precondition failure
belowPrior(agent, target) == agent.level < target - 1

\* `new Date().toISOString().slice(0, 10)` at clock value t
today(t) == t \div DAY_MS

\* sha256 of the address followed by the salt of the day: equal exactly for
\* the same address on the same day
hashIp(ip, t) == <<ip, today(t)>>

createAgent(ag, id, ipHash, t) ==
  [ag EXCEPT ![id] = [NoAgent EXCEPT !.present = TRUE, !.level = 0,
                                     !.level_label = "registered",
                                     !.challenge_code = 1, !.ip_hash = ipHash,
                                     !.registered_at = t,
                                     !.expires_at = t + EXPIRY_DAYS * DAY_MS]]

confirmAgent(ag, id, challengeToken, t) ==
  [ag EXCEPT ![id].level = 1, ![id].level_label = "confirmed",
             ![id].challenge_token = challengeToken,
             ![id].expires_at = t + EXPIRY_DAYS * DAY_MS]

verifyAgent(ag, id, apiEndpoint, codeUrl, onChainSig, t) ==
  [ag EXCEPT ![id].level = 2, ![id].level_label = "verified",
             ![id].api_endpoint = apiEndpoint,
             ![id].code_url = codeUrl, ![id].on_chain_sig = onChainSig,
             ![id].expires_at = t + EXPIRY_DAYS * DAY_MS]

\* the level of the anchored transition written along with its signature
updateOnChainSig_andLevel(ag, id, sig) ==
  [ag EXCEPT ![id].on_chain_sig = sig, ![id].level = sig]

\* a signature that is already stored is kept
updateOnChainSig_keepsFirst(ag, id, sig) ==
  [ag EXCEPT ![id].on_chain_sig = IF @ = 0 THEN sig ELSE @]

updateOnChainSig(ag, id, sig) == [ag EXCEPT ![id].on_chain_sig = sig]

getExtendedVerification(id) == ext[id]

\* setBehavioral, setHardware and setMobile each write the
\* extended_verification row (UPDATE if it exists, INSERT otherwise) and then
\* the agent's level; the two writes are the two operators below.
setBehavioralExt(ex, id, fingerprint, uniqueness) ==
  [ex EXCEPT ![id].present = TRUE, ![id].fingerprint = fingerprint,
             ![id].fingerprint_uniqueness = uniqueness]

setBehavioralLevel(ag, id) ==
  [ag EXCEPT ![id].level = 3, ![id].level_label = "behavioral"]

\* the row replaced by one that holds the hardware binding only
setHardwareExt_replaces(ex, id, provider, devicePDA, bindingHash, onChainSig) ==
  [ex EXCEPT ![id] = [NoExt EXCEPT !.present = TRUE, !.depin_provider = provider,
                                   !.depin_device_pda = devicePDA,
                                   !.depin_binding_hash = bindingHash,
                                   !.depin_on_chain_sig = onChainSig]]

setHardwareExt(ex, id, provider, devicePDA, bindingHash, onChainSig) ==
  [ex EXCEPT ![id].present = TRUE, ![id].depin_provider = provider,
             ![id].depin_device_pda = devicePDA,
             ![id].depin_binding_hash = bindingHash,
             ![id].depin_on_chain_sig = onChainSig]

setHardwareLevel(ag, id) ==
  [ag EXCEPT ![id].level = 4, ![id].level_label = "hardware"]

setMobileExt(ex, id, devicePubkey, onChainSig) ==
  [ex EXCEPT ![id].present = TRUE, ![id].mobile_device_pubkey = devicePubkey,
             ![id].mobile_verified = 1, ![id].mobile_on_chain_sig = onChainSig]

setMobileLevel(ag, id) ==
  [ag EXCEPT ![id].level = 5, ![id].level_label = "mobile"]

getAllAgents == {a \in DOMAIN agents : agents[a].present}

\* the rows of the same address counted whatever their day
countRegistrationsFromIp_anyDay(ag, ipHash, t) ==
  Cardinality({a \in DOMAIN ag : ag[a].present /\ ag[a].ip_hash[1] = ipHash[1]})

\* rows written at midnight exactly left out of the day's count
countRegistrationsFromIp_afterMidnight(ag, ipHash, t) ==
  Cardinality({a \in DOMAIN ag : /\ ag[a].present
                                  /\ ag[a].ip_hash = ipHash
                                  /\ ag[a].registered_at > today(t) * DAY_MS})

\* `WHERE ip_hash = ? AND registered_at >= today + 'T00:00:00.000Z'`
countRegistrationsFromIp(ag, ipHash, t) ==
  Cardinality({a \in DOMAIN ag : /\ ag[a].present
                                  /\ ag[a].ip_hash = ipHash
                                  /\ ag[a].registered_at >= today(t) * DAY_MS})

addAuditLog(log, id, action) == [log EXCEPT ![id][action] = @ + 1]

addSybilSignal(sig, id, signalType) == [sig EXCEPT ![id][signalType] = @ + 1]

addPendingAnchor(pa, id, level) == [pa EXCEPT ![id][level] = Append(@, 0)]

\* a pending_anchors row is named by its agent, the level of its memo and its
\* place among the rows of that memo
PendingRows(pa) ==
  {e \in Agents \X (1..3) \X (1..MaxPending + 1) : e[3] <= Len(pa[e[1]][e[2]])}

\* the `WHERE retries < 5` left out
getPendingAnchors_all(pa) == PendingRows(pa)

\* `WHERE retries < 5` letting a row at the ceiling through
getPendingAnchors_inclusive(pa) ==
  {e \in PendingRows(pa) : pa[e[1]][e[2]][e[3]] <= RETRY_CEILING}

\* SELECT * FROM pending_anchors WHERE retries < 5
getPendingAnchors(pa) ==
  {e \in PendingRows(pa) : pa[e[1]][e[2]][e[3]] < RETRY_CEILING}

removePendingAnchor(pa, e) ==
  [pa EXCEPT ![e[1]][e[2]] =
     SubSeq(@, 1, e[3] - 1) \o SubSeq(@, e[3] + 1, Len(@))]

\* `SET retries = retries + 1` adding two
incrementPendingAnchorRetry_twice(pa, e) ==
  [pa EXCEPT ![e[1]][e[2]][e[3]] = @ + 2]

incrementPendingAnchorRetry(pa, e) ==
  [pa EXCEPT ![e[1]][e[2]][e[3]] = @ + 1]

\* fullDump().pending_anchors: SELECT * FROM pending_anchors
fullDump(pa) == PendingRows(pa)

\* ---------------------------------------------------------- lib/solana.js
\* anchorLevelChange(agentId, level, label) starts a ledger write whose
\* promise the handler does not await; `anchors` counts the writes that
\* have not settled yet.
anchorLevelChange(an, id, level) == [an EXCEPT ![id][level] = @ + 1]

\* Suspended requests form a bag: two requests suspended at the same await
\* with the same data are two members.
Suspended == BagToSet(inflight)

suspend(r) == inflight (+) SetToBag({r})

resume(r) == inflight (-) SetToBag({r})

\* cap: how many requests the run lets be suspended at the same time
HasRoom(cap) == BagCardinality(inflight) < cap

Init ==
  /\ agents = [a \in Agents |-> NoAgent]
  /\ ext = [a \in Agents |-> NoExt]
  /\ sybil_signals = [a \in Agents |-> [t \in SignalTypes |-> 0]]
  /\ audit_log = [a \in Agents |-> [t \in AuditActions |-> 0]]
  /\ pending_anchors = [a \in Agents |-> [k \in 1..3 |-> <<>>]]
  /\ challenges = [a \in Agents |-> NoChallenge]
  /\ issued = [a \in Agents |-> 0]
  /\ inflight = EmptyBag
  /\ anchors = [a \in Agents |-> [k \in 1..3 |-> 0]]
  /\ now = 0
  /\ resp = NoResp

\* ------------------------------------------- POST /api/self-verify (L0)
\* the handler without its `if (existing)` answer
Register_reRegisters(a, ip) ==
  LET ipHash == hashIp(ip, now)
      created == createAgent(agents, a, ipHash, now)
  IN
  IF countRegistrationsFromIp(agents, ipHash, now) >= DAILY_LIMIT
  THEN /\ resp' = Response("register", a, 429, FALSE, -1, -1, "quota")
       /\ UNCHANGED <<dbvars, challenges, issued, inflight, anchors, now>>
  ELSE /\ agents' = created
       /\ audit_log' = addAuditLog(audit_log, a, "register")
       /\ sybil_signals' =
            IF countRegistrationsFromIp(created, ipHash, now) > 1
            THEN addSybilSignal(sybil_signals, a, "ip_cluster")
            ELSE sybil_signals
       /\ resp' = Response("register", a, 201, TRUE, 0, -1, "")
       /\ UNCHANGED <<ext, pending_anchors, challenges, issued, inflight, anchors, now>>

Register(a, ip) ==
  LET existing == getAgent(a)
      ipHash == hashIp(ip, now)
      created == createAgent(agents, a, ipHash, now)
  IN
  IF existing.present
  THEN /\ resp' = Response("register", a, 409, FALSE, existing.level, -1, "conflict")
       /\ UNCHANGED <<dbvars, challenges, issued, inflight, anchors, now>>
  ELSE IF countRegistrationsFromIp(agents, ipHash, now) >= DAILY_LIMIT
  THEN /\ resp' = Response("register", a, 429, FALSE, -1, -1, "quota")
       /\ UNCHANGED <<dbvars, challenges, issued, inflight, anchors, now>>
  ELSE /\ agents' = created
       /\ audit_log' = addAuditLog(audit_log, a, "register")
       /\ sybil_signals' =
            IF countRegistrationsFromIp(created, ipHash, now) > 1
            THEN addSybilSignal(sybil_signals, a, "ip_cluster")
            ELSE sybil_signals
       /\ resp' = Response("register", a, 201, TRUE, 0, -1, "")
       /\ UNCHANGED <<ext, pending_anchors, challenges, issued, inflight, anchors, now>>

\* the agentId texts sent to the registration route
Long64 == "xxxxxxxxxxxxxxxxxxxxxxxxxxxxxxxxxxxxxxxxxxxxxxxxxxxxxxxxxxxxxxxx"
Long65 == "xxxxxxxxxxxxxxxxxxxxxxxxxxxxxxxxxxxxxxxxxxxxxxxxxxxxxxxxxxxxxxxxx"
AgentIdTexts == {"", "ab", "abc", "a b", "a_9", "agent-001", "agent.001", Long64, Long65}

\* the characters of an agentId text
chars(str) ==
  CASE str = "" -> <<>>
    [] str = "ab" -> <<"a", "b">>
    [] str = "abc" -> <<"a", "b", "c">>
    [] str = "a b" -> <<"a", " ", "b">>
    [] str = "a_9" -> <<"a", "_", "9">>
    [] str = "agent-001" -> <<"a", "g", "e", "n", "t", "-", "0", "0", "1">>
    [] str = "agent.001" -> <<"a", "g", "e", "n", "t", ".", "0", "0", "1">>
    [] str = Long64 -> [i \in 1..64 |-> "x"]
    [] str = Long65 -> [i \in 1..65 |-> "x"]

\* the characters of the class [a-zA-Z0-9_-] that occur in AgentIdTexts
IdChars == {"a", "b", "c", "e", "g", "n", "t", "x", "0", "1", "9", "_", "-"}

\* the pattern without its upper length
validAgentId_noUpper(agentId) ==
  /\ Len(chars(agentId)) >= MIN_ID_LEN
  /\ \A i \in 1..Len(chars(agentId)) : chars(agentId)[i] \in IdChars

\* /^[a-zA-Z0-9_-]{3,64}$/.test(agentId)
validAgentId(agentId) ==
  /\ Len(chars(agentId)) \in MIN_ID_LEN..MAX_ID_LEN
  /\ \A i \in 1..Len(chars(agentId)) : chars(agentId)[i] \in IdChars

\* the whole handler: the checks of the request body, then the rest
RegisterRequest(agentId, acceptTerms, ip) ==
  IF agentId = ""
  THEN /\ resp' = Response("register", agentId, 400, FALSE, -1, -1, "agentId_required")
       /\ UNCHANGED <<dbvars, challenges, issued, inflight, anchors, now>>
  ELSE IF ~validAgentId(agentId)
  THEN /\ resp' = Response("register", agentId, 400, FALSE, -1, -1, "agentId_format")
       /\ UNCHANGED <<dbvars, challenges, issued, inflight, anchors, now>>
  ELSE IF ~acceptTerms
  THEN /\ resp' = Response("register", agentId, 400, FALSE, -1, -1, "terms")
       /\ UNCHANGED <<dbvars, challenges, issued, inflight, anchors, now>>
  ELSE Register(agentId, ip)

\* ------------------------------------ POST /api/self-verify/confirm (L1)
\* up to `await verifyChallengeOnForum(...)`
ConfirmStart(a, cap) ==
  LET agent == getAgent(a) IN
  IF ~agent.present
  THEN /\ resp' = Response("confirm", a, 404, FALSE, -1, -1, "not_found")
       /\ UNCHANGED <<dbvars, challenges, issued, inflight, anchors, now>>
  ELSE IF isRevoked(agent)
  THEN /\ resp' = Response("confirm", a, 403, FALSE, -1, -1, "revoked")
       /\ UNCHANGED <<dbvars, challenges, issued, inflight, anchors, now>>
  ELSE IF alreadyAt(agent, 1)
  THEN /\ resp' = Response("confirm", a, 200, TRUE, agent.level, -1, "already")
       /\ UNCHANGED <<dbvars, challenges, issued, inflight, anchors, now>>
  ELSE IF agent.challenge_code = 0
  THEN /\ resp' = Response("confirm", a, 400, FALSE, -1, -1, "no_challenge_code")
       /\ UNCHANGED <<dbvars, challenges, issued, inflight, anchors, now>>
  ELSE /\ HasRoom(cap)
       /\ inflight' = suspend(
                           [Idle EXCEPT !.op = "confirm", !.agent = a, !.pc = "forum"])
       /\ resp' = NoResp
       /\ UNCHANGED <<dbvars, challenges, issued, anchors, now>>

\* generateChallengeToken(): 32 random bytes, a value the agent never had
generateChallengeToken(a) == agents[a].challenge_token + 1

\* from the settling of verifyChallengeOnForum to the end of the handler
ConfirmForum(r, outcome) ==
  LET a == r.agent IN
  /\ r.op = "confirm"
  /\ r.pc = "forum"
  /\ inflight' = resume(r)
  /\ CASE outcome = "throw" ->
            /\ resp' = Response("confirm", a, 502, FALSE, -1, -1, "forum_failure")
            /\ UNCHANGED <<dbvars, challenges, issued, anchors, now>>
       [] outcome = "notfound" ->
            /\ resp' = Response("confirm", a, 400, FALSE, -1, -1, "code_not_found")
            /\ UNCHANGED <<dbvars, challenges, issued, anchors, now>>
       [] outcome = "found" ->
            /\ audit_log[a]["confirm"] < MaxAudit
            /\ anchors[a][1] < MaxAnchors
            /\ agents' = confirmAgent(agents, a, generateChallengeToken(a), now)
            /\ audit_log' = addAuditLog(audit_log, a, "confirm")
            /\ anchors' = anchorLevelChange(anchors, a, 1)
            /\ resp' = Response("confirm", a, 200, TRUE, 1, -1, "")
            /\ UNCHANGED <<ext, sybil_signals, pending_anchors, challenges, issued, now>>

\* ------------------------- .then / .catch of anchorLevelChange (L1..L3)
AnchorSettle(a, k, sig) ==
  /\ anchors[a][k] > 0
  /\ anchors' = [anchors EXCEPT ![a][k] = @ - 1]
  /\ IF sig
     THEN /\ agents' = updateOnChainSig(agents, a, Sig(k))
          /\ UNCHANGED pending_anchors
     ELSE /\ Len(pending_anchors[a][k]) < MaxPending
          /\ pending_anchors' = addPendingAnchor(pending_anchors, a, k)
          /\ UNCHANGED agents
  /\ resp' = NoResp
  /\ UNCHANGED <<ext, sybil_signals, audit_log, challenges, issued, inflight, now>>

\* ------------------------------------- POST /api/self-verify/verify (L2)
\* up to the first `await fetchUrl(wellKnownUrl)`; `agent` is the row read
\* here, and the handler keeps using it after the awaits
VerifyStart(a, apiEndpoint, cap) ==
  LET agent == getAgent(a) IN
  IF ~agent.present
  THEN /\ resp' = Response("verify", a, 404, FALSE, -1, -1, "not_found")
       /\ UNCHANGED <<dbvars, challenges, issued, inflight, anchors, now>>
  ELSE IF isRevoked(agent)
  THEN /\ resp' = Response("verify", a, 403, FALSE, -1, -1, "revoked")
       /\ UNCHANGED <<dbvars, challenges, issued, inflight, anchors, now>>
  ELSE IF belowPrior(agent, 2)
  THEN \* 'Agent must be L1 confirmed before L2 verification. ...'
       /\ resp' = Response("verify", a, 400, FALSE, -1, 1, "precondition")
       /\ UNCHANGED <<dbvars, challenges, issued, inflight, anchors, now>>
  ELSE IF alreadyAt(agent, 2)
  THEN /\ resp' = Response("verify", a, 200, TRUE, agent.level, -1, "already")
       /\ UNCHANGED <<dbvars, challenges, issued, inflight, anchors, now>>
  ELSE /\ HasRoom(cap)
       /\ inflight' = suspend(
                           [Idle EXCEPT !.op = "verify", !.agent = a, !.pc = "wellKnown",
                                        !.token = agent.challenge_token,
                                        !.apiEndpoint = apiEndpoint])
       /\ resp' = NoResp
       /\ UNCHANGED <<dbvars, challenges, issued, anchors, now>>

\* Check 1 without the comparison of the token
WellKnownErrors_ignoresToken(kind, idOk, tok, token) ==
  CASE kind = "throw" -> {"fetch_failed"}
    [] kind = "http" -> {"http_status"}
    [] kind = "badjson" -> {"invalid_json"}
    [] kind = "json" -> (IF idOk THEN {} ELSE {"agentId_mismatch"})

\* Check 1: the outcome of fetching /.well-known/moltlaunch.json.
\* kind: "throw" (fetch failed), "http" (status other than 200), "badjson",
\* or "json" with idOk (data.agentId === agentId) and tok (data.token)
WellKnownErrors(kind, idOk, tok, token) ==
  CASE kind = "throw" -> {"fetch_failed"}
    [] kind = "http" -> {"http_status"}
    [] kind = "badjson" -> {"invalid_json"}
    [] kind = "json" -> (IF idOk THEN {} ELSE {"agentId_mismatch"})
                        \cup (IF tok # token THEN {"token_mismatch"} ELSE {})

\* the handler answering at once when Check 1 fails
VerifyWellKnown_shortCircuit(r, kind, idOk, tok) ==
  LET errors == WellKnownErrors(kind, idOk, tok, r.token) IN
  /\ r.op = "verify"
  /\ r.pc = "wellKnown"
  /\ IF errors # {}
     THEN /\ inflight' = resume(r)
          /\ resp' = [Response("verify", r.agent, 400, FALSE, -1, -1, "verification_failed")
                        EXCEPT !.failures = errors]
     ELSE /\ inflight' = resume(r) (+) SetToBag({[r EXCEPT !.pc = "codeUrl"]})
          /\ resp' = NoResp
  /\ UNCHANGED <<dbvars, challenges, issued, anchors, now>>

VerifyWellKnown(r, kind, idOk, tok) ==
  /\ r.op = "verify"
  /\ r.pc = "wellKnown"
  /\ inflight' = resume(r) (+) SetToBag({
       [r EXCEPT !.pc = "codeUrl",
                 !.errors = WellKnownErrors(kind, idOk, tok, r.token)]})
  /\ resp' = NoResp
  /\ UNCHANGED <<dbvars, challenges, issued, anchors, now>>

\* Check 2: kind is "throw", "bad" (status outside 200..399) or "ok"
CodeUrlErrors(kind) ==
  CASE kind = "throw" -> {"code_fetch_failed"}
    [] kind = "bad" -> {"code_status"}
    [] kind = "ok" -> {}

\* the filter also requiring the other agent not to be revoked
sameEndpoint_nonRevoked(ag, a, apiEndpoint) ==
  {x \in DOMAIN ag : /\ ag[x].present /\ ag[x].api_endpoint = apiEndpoint
                      /\ x # a /\ ag[x].revoked = 0}

\* the filter without `a.id !== agentId`
sameEndpoint_includesSelf(ag, a, apiEndpoint) ==
  {x \in DOMAIN ag : ag[x].present /\ ag[x].api_endpoint = apiEndpoint}

\* the other agents whose api_endpoint is the one just verified
sameEndpoint(ag, a, apiEndpoint) ==
  {x \in Agents : ag[x].present /\ ag[x].api_endpoint = apiEndpoint /\ x # a}

\* from the settling of `await fetchUrl(codeUrl)` to the end of the handler
VerifyCodeUrl(r, kind) ==
  LET a == r.agent
      apiEndpoint == r.apiEndpoint
      errors == r.errors \cup CodeUrlErrors(kind)
      verified == verifyAgent(agents, a, apiEndpoint, 1, 0, now)
      same == sameEndpoint(verified, a, apiEndpoint)
      flagged == IF same # {} THEN same \cup {a} ELSE {}
  IN
  /\ r.op = "verify"
  /\ r.pc = "codeUrl"
  /\ inflight' = resume(r)
  /\ IF errors # {}
     THEN /\ resp' = [Response("verify", a, 400, FALSE, -1, -1, "verification_failed")
                        EXCEPT !.failures = errors]
          /\ UNCHANGED <<dbvars, challenges, issued, anchors, now>>
     ELSE /\ audit_log[a]["verify"] < MaxAudit
          /\ anchors[a][2] < MaxAnchors
          /\ \A x \in flagged : sybil_signals[x]["endpoint_cluster"] < MaxSignals
          /\ agents' = verified
          /\ audit_log' = addAuditLog(audit_log, a, "verify")
          /\ sybil_signals' =
               [x \in Agents |->
                  IF x \in flagged
                  THEN addSybilSignal(sybil_signals, x, "endpoint_cluster")[x]
                  ELSE sybil_signals[x]]
          /\ anchors' = anchorLevelChange(anchors, a, 2)
          /\ resp' = Response("verify", a, 200, TRUE, 2, -1, "")
          /\ UNCHANGED <<ext, pending_anchors, challenges, issued, now>>

\* --------------------------------- POST /api/self-verify/behavioral (L3)
\* getBehavioralFingerprint reads the pre-computed fingerprints file and is
\* synchronous, so the handler runs in one step.  hasData: the agent is in
\* the file; uniquenessScore: its score scaled by 10000
\* the threshold test taken as "at most 0.3"
potentialSybil_inclusive(uniquenessScore) == uniquenessScore <= SYBIL_THRESHOLD

\* `uniquenessScore < 0.3`
potentialSybil(uniquenessScore) == uniquenessScore < SYBIL_THRESHOLD

Behavioral(a, hasData, fingerprint, uniquenessScore) ==
  LET agent == getAgent(a) IN
  IF ~agent.present
  THEN /\ resp' = Response("behavioral", a, 404, FALSE, -1, -1, "not_found")
       /\ UNCHANGED <<dbvars, challenges, issued, inflight, anchors, now>>
  ELSE IF isRevoked(agent)
  THEN /\ resp' = Response("behavioral", a, 403, FALSE, -1, -1, "revoked")
       /\ UNCHANGED <<dbvars, challenges, issued, inflight, anchors, now>>
  ELSE IF belowPrior(agent, 3)
  THEN /\ resp' = Response("behavioral", a, 400, FALSE, agent.level, 2, "precondition")
       /\ UNCHANGED <<dbvars, challenges, issued, inflight, anchors, now>>
  ELSE IF alreadyAt(agent, 3)
  THEN /\ resp' = Response("behavioral", a, 200, TRUE, agent.level, -1, "already")
       /\ UNCHANGED <<dbvars, challenges, issued, inflight, anchors, now>>
  ELSE IF ~hasData
  THEN /\ resp' = Response("behavioral", a, 404, FALSE, -1, -1, "no_data")
       /\ UNCHANGED <<dbvars, challenges, issued, inflight, anchors, now>>
  ELSE /\ audit_log[a]["behavioral"] < MaxAudit
       /\ anchors[a][3] < MaxAnchors
       /\ potentialSybil(uniquenessScore) =>
            sybil_signals[a]["behavioral_similarity"] < MaxSignals
       /\ sybil_signals' =
            IF potentialSybil(uniquenessScore)
            THEN addSybilSignal(sybil_signals, a, "behavioral_similarity")
            ELSE sybil_signals
       /\ ext' = setBehavioralExt(ext, a, fingerprint, uniquenessScore)
       /\ agents' = setBehavioralLevel(agents, a)
       /\ audit_log' = addAuditLog(audit_log, a, "behavioral")
       /\ anchors' = anchorLevelChange(anchors, a, 3)
       /\ resp' = Response("behavioral", a, 200, TRUE, 3, -1, "")
       /\ UNCHANGED <<pending_anchors, challenges, issued, inflight, now>>

\* -------------------------------------- POST /api/self-verify/depin (L4)
\* up to `await readDevicePDA(provider, devicePDA)`
DepinStart(a, provider, devicePDA, cap) ==
  LET agent == getAgent(a) IN
  IF ~agent.present
  THEN /\ resp' = Response("depin", a, 404, FALSE, -1, -1, "not_found")
       /\ UNCHANGED <<dbvars, challenges, issued, inflight, anchors, now>>
  ELSE IF isRevoked(agent)
  THEN /\ resp' = Response("depin", a, 403, FALSE, -1, -1, "revoked")
       /\ UNCHANGED <<dbvars, challenges, issued, inflight, anchors, now>>
  ELSE IF belowPrior(agent, 4)
  THEN /\ resp' = Response("depin", a, 400, FALSE, agent.level, 3, "precondition")
       /\ UNCHANGED <<dbvars, challenges, issued, inflight, anchors, now>>
  ELSE IF alreadyAt(agent, 4)
  THEN /\ resp' = Response("depin", a, 200, TRUE, agent.level, -1, "already")
       /\ UNCHANGED <<dbvars, challenges, issued, inflight, anchors, now>>
  ELSE /\ HasRoom(cap)
       /\ inflight' = suspend(
                           [Idle EXCEPT !.op = "depin", !.agent = a, !.pc = "readDevicePDA",
                                        !.provider = provider, !.devicePDA = devicePDA])
       /\ resp' = NoResp
       /\ UNCHANGED <<dbvars, challenges, issued, anchors, now>>

\* readDevicePDA settles: the mock provider always returns a device, a real
\* provider throws when the account cannot be read.  On a device the handler
\* runs createBinding (which stamps Date.now()) up to `await anchorBinding`
DepinDevice(r, found) ==
  LET a == r.agent IN
  /\ r.op = "depin"
  /\ r.pc = "readDevicePDA"
  /\ r.provider = "mock" => found
  /\ IF found
     THEN /\ inflight' = resume(r) (+) SetToBag({
                 [r EXCEPT !.pc = "anchorBinding", !.bindingTime = now]})
          /\ resp' = NoResp
     ELSE /\ inflight' = resume(r)
          /\ resp' = Response("depin", a, 400, FALSE, -1, -1, "device_read_failed")
  /\ UNCHANGED <<dbvars, challenges, issued, anchors, now>>

\* createBinding: sha256 of `${agentId}:${devicePDA}:${provider}:${timestamp}`
bindingHash(a, devicePDA, provider, timestamp) == <<a, devicePDA, provider, timestamp>>

\* anchorBinding settles (sig: the ledger write succeeded) and the handler
\* runs to its end
DepinAnchor(r, sig) ==
  LET a == r.agent IN
  /\ r.op = "depin"
  /\ r.pc = "anchorBinding"
  /\ audit_log[a]["depin_binding"] < MaxAudit
  /\ inflight' = resume(r)
  /\ ext' = setHardwareExt(ext, a, r.provider, r.devicePDA,
                           bindingHash(a, r.devicePDA, r.provider, r.bindingTime),
                           IF sig THEN Sig(4) ELSE 0)
  /\ agents' = setHardwareLevel(agents, a)
  /\ audit_log' = addAuditLog(audit_log, a, "depin_binding")
  /\ resp' = Response("depin", a, 200, TRUE, 4, -1, "")
  /\ UNCHANGED <<sybil_signals, pending_anchors, challenges, issued, anchors, now>>

\* ---------------------------------------------------------- lib/mobile.js
cleanExpiredChallenges(ch, t) ==
  [x \in Agents |->
     IF ch[x].present /\ t > ch[x].expiresAt + GRACE_MS THEN NoChallenge ELSE ch[x]]

\* crypto.randomBytes(32): a nonce that was never issued before
\* a challenge that is still stored is kept instead of being overwritten
generateChallenge_keep(ch, a, nonce, t) ==
  IF ch[a].present
  THEN ch
  ELSE cleanExpiredChallenges(
         [ch EXCEPT ![a] = [present |-> TRUE, challenge |-> nonce,
                            expiresAt |-> t + CHALLENGE_EXPIRY_MS, used |-> FALSE]], t)

generateChallenge(ch, a, nonce, t) ==
  cleanExpiredChallenges(
    [ch EXCEPT ![a] = [present |-> TRUE, challenge |-> nonce,
                       expiresAt |-> t + CHALLENGE_EXPIRY_MS, used |-> FALSE]], t)

\* a signature that does not verify uses the challenge up
verifyChallenge_burns(ch, a, keyOk, len64, sigNonce, sigKey, devicePubkey, t) ==
  LET stored == ch[a] IN
  IF ~stored.present
  THEN [valid |-> FALSE, error |-> "no_challenge", challenges |-> ch]
  ELSE IF t > stored.expiresAt
  THEN [valid |-> FALSE, error |-> "expired",
        challenges |-> [ch EXCEPT ![a] = NoChallenge]]
  ELSE IF stored.used
  THEN [valid |-> FALSE, error |-> "already_used", challenges |-> ch]
  ELSE IF ~keyOk
  THEN [valid |-> FALSE, error |-> "invalid_pubkey", challenges |-> ch]
  ELSE IF ~len64
  THEN [valid |-> FALSE, error |-> "invalid_length", challenges |-> ch]
  ELSE IF ~(sigNonce = stored.challenge /\ sigKey = devicePubkey)
  THEN [valid |-> FALSE, error |-> "bad_signature",
        challenges |-> [ch EXCEPT ![a].used = TRUE]]
  ELSE [valid |-> TRUE, error |-> "",
        challenges |-> [ch EXCEPT ![a].used = TRUE]]

\* verification that does not mark the challenge used
verifyChallenge_reusable(ch, a, keyOk, len64, sigNonce, sigKey, devicePubkey, t) ==
  LET stored == ch[a] IN
  IF ~stored.present
  THEN [valid |-> FALSE, error |-> "no_challenge", challenges |-> ch]
  ELSE IF t > stored.expiresAt
  THEN [valid |-> FALSE, error |-> "expired",
        challenges |-> [ch EXCEPT ![a] = NoChallenge]]
  ELSE IF stored.used
  THEN [valid |-> FALSE, error |-> "already_used", challenges |-> ch]
  ELSE IF ~keyOk
  THEN [valid |-> FALSE, error |-> "invalid_pubkey", challenges |-> ch]
  ELSE IF ~len64
  THEN [valid |-> FALSE, error |-> "invalid_length", challenges |-> ch]
  ELSE IF ~(sigNonce = stored.challenge /\ sigKey = devicePubkey)
  THEN [valid |-> FALSE, error |-> "bad_signature", challenges |-> ch]
  ELSE [valid |-> TRUE, error |-> "", challenges |-> ch]

\* verification that does not look at the expiry time
verifyChallenge_noExpiry(ch, a, keyOk, len64, sigNonce, sigKey, devicePubkey, t) ==
  LET stored == ch[a] IN
  IF ~stored.present
  THEN [valid |-> FALSE, error |-> "no_challenge", challenges |-> ch]
  ELSE IF stored.used
  THEN [valid |-> FALSE, error |-> "already_used", challenges |-> ch]
  ELSE IF ~keyOk
  THEN [valid |-> FALSE, error |-> "invalid_pubkey", challenges |-> ch]
  ELSE IF ~len64
  THEN [valid |-> FALSE, error |-> "invalid_length", challenges |-> ch]
  ELSE IF ~(sigNonce = stored.challenge /\ sigKey = devicePubkey)
  THEN [valid |-> FALSE, error |-> "bad_signature", challenges |-> ch]
  ELSE [valid |-> TRUE, error |-> "",
        challenges |-> [ch EXCEPT ![a].used = TRUE]]

\* A submitted signature: keyOk (devicePubkeyStr parses as a public key),
\* len64 (the decoded signature has 64 bytes), and the nonce and key it was
\* made over (nonce 0: a signature over some other message).  Ed25519
\* verification accepts it iff it was made over the stored nonce with the
\* claimed device key.
verifyChallenge(ch, a, keyOk, len64, sigNonce, sigKey, devicePubkey, t) ==
  LET stored == ch[a] IN
  IF ~stored.present
  THEN [valid |-> FALSE, error |-> "no_challenge", challenges |-> ch]
  ELSE IF t > stored.expiresAt
  THEN [valid |-> FALSE, error |-> "expired",
        challenges |-> [ch EXCEPT ![a] = NoChallenge]]
  ELSE IF stored.used
  THEN [valid |-> FALSE, error |-> "already_used", challenges |-> ch]
  ELSE IF ~keyOk
  THEN [valid |-> FALSE, error |-> "invalid_pubkey", challenges |-> ch]
  ELSE IF ~len64
  THEN [valid |-> FALSE, error |-> "invalid_length", challenges |-> ch]
  ELSE IF ~(sigNonce = stored.challenge /\ sigKey = devicePubkey)
  THEN [valid |-> FALSE, error |-> "bad_signature", challenges |-> ch]
  ELSE [valid |-> TRUE, error |-> "",
        challenges |-> [ch EXCEPT ![a].used = TRUE]]

\* --------------------------- GET /api/self-verify/mobile/challenge
MobileChallenge(a) ==
  LET agent == getAgent(a) IN
  IF ~agent.present
  THEN /\ resp' = Response("challenge", a, 404, FALSE, -1, -1, "not_found")
       /\ UNCHANGED <<dbvars, challenges, issued, inflight, anchors, now>>
  ELSE IF belowPrior(agent, 5)
  THEN /\ resp' = Response("challenge", a, 400, FALSE, agent.level, 4, "precondition")
       /\ UNCHANGED <<dbvars, challenges, issued, inflight, anchors, now>>
  ELSE /\ issued[a] < MaxNonces
       /\ issued' = [issued EXCEPT ![a] = @ + 1]
       /\ challenges' = generateChallenge(challenges, a, issued[a] + 1, now)
       /\ resp' = Response("challenge", a, 200, TRUE, -1, -1, "")
       /\ UNCHANGED <<dbvars, inflight, anchors, now>>

\* ------------------------------------- POST /api/self-verify/mobile (L5)
\* up to `await anchorMobileVerification(agentId, devicePubkey)`
MobileStart(a, keyOk, len64, sigNonce, sigKey, devicePubkey, cap) ==
  LET agent == getAgent(a)
      verification == verifyChallenge(challenges, a, keyOk, len64, sigNonce,
                                      sigKey, devicePubkey, now)
  IN
  IF ~agent.present
  THEN /\ resp' = Response("mobile", a, 404, FALSE, -1, -1, "not_found")
       /\ UNCHANGED <<dbvars, challenges, issued, inflight, anchors, now>>
  ELSE IF isRevoked(agent)
  THEN /\ resp' = Response("mobile", a, 403, FALSE, -1, -1, "revoked")
       /\ UNCHANGED <<dbvars, challenges, issued, inflight, anchors, now>>
  ELSE IF belowPrior(agent, 5)
  THEN /\ resp' = Response("mobile", a, 400, FALSE, agent.level, 4, "precondition")
       /\ UNCHANGED <<dbvars, challenges, issued, inflight, anchors, now>>
  ELSE IF alreadyAt(agent, 5)
  THEN /\ resp' = Response("mobile", a, 200, TRUE, 5, -1, "already")
       /\ UNCHANGED <<dbvars, challenges, issued, inflight, anchors, now>>
  ELSE IF ~verification.valid
  THEN /\ challenges' = verification.challenges
       /\ resp' = Response("mobile", a, 400, FALSE, -1, -1, verification.error)
       /\ UNCHANGED <<dbvars, issued, inflight, anchors, now>>
  ELSE /\ challenges' = verification.challenges
       /\ HasRoom(cap)
       /\ inflight' = suspend(
                           [Idle EXCEPT !.op = "mobile", !.agent = a, !.pc = "anchorMobile",
                                        !.devicePubkey = devicePubkey,
                                        !.challengeResponse = sigNonce])
       /\ resp' = NoResp
       /\ UNCHANGED <<dbvars, issued, anchors, now>>

\* anchorMobileVerification settles (sig: the ledger write succeeded) and
\* the handler runs to its end
MobileAnchor(r, sig) ==
  LET a == r.agent IN
  /\ r.op = "mobile"
  /\ r.pc = "anchorMobile"
  /\ audit_log[a]["mobile_verify"] < MaxAudit
  /\ inflight' = resume(r)
  /\ ext' = setMobileExt(ext, a, r.devicePubkey, IF sig THEN Sig(5) ELSE 0)
  /\ agents' = setMobileLevel(agents, a)
  /\ audit_log' = addAuditLog(audit_log, a, "mobile_verify")
  /\ resp' = Response("mobile", a, 200, TRUE, 5, -1, "")
  /\ UNCHANGED <<sybil_signals, pending_anchors, challenges, issued, anchors, now>>

\* --------------------------------- GET /api/self-verify/status/:id
\* routes/status.js has a LEVEL_LABELS of its own, with the keys 0, 1 and 2:
\* LEVEL_LABELS[level] of another level is undefined
LEVEL_LABELS_status(level) ==
  CASE level = 0 -> "registered"
    [] level = 1 -> "confirmed"
    [] level = 2 -> "verified"
    [] OTHER -> "undefined"

publicAgentResponse(a) ==
  [Response("status", a, 200, TRUE, agents[a].level, -1, "")
     EXCEPT !.revoked = (agents[a].revoked # 0),
            !.levelLabel = LEVEL_LABELS_status(agents[a].level)]

Status(a) ==
  /\ resp' = IF ~getAgent(a).present
             THEN Response("status", a, 404, FALSE, -1, -1, "not_found")
             ELSE publicAgentResponse(a)
  /\ UNCHANGED <<dbvars, challenges, issued, inflight, anchors, now>>

\* ------------------------------------------------------------ environment
\* Date.now() advances
Tick ==
  /\ now < MaxTime
  /\ now' = now + 1
  /\ resp' = NoResp
  /\ UNCHANGED <<dbvars, challenges, issued, inflight, anchors>>

\* No handler writes the revoked column: revocation is the operator's edit
\* of the database file, which db.js reads only in initDb when the process
\* starts.  A start drops everything the process kept in memory: suspended
\* requests, unsettled ledger writes and the mobile challenge map.
RestartRevoked(a) ==
  /\ agents[a].present
  /\ agents[a].revoked = 0
  /\ agents' = [agents EXCEPT ![a].revoked = 1]
  /\ inflight' = EmptyBag
  /\ anchors' = [x \in Agents |-> [k \in 1..3 |-> 0]]
  /\ challenges' = [x \in Agents |-> NoChallenge]
  /\ resp' = NoResp
  /\ UNCHANGED <<ext, sybil_signals, audit_log, pending_anchors, issued, now>>

\* The signatures a client may submit for nonces 0..MaxNonces
MobileInputs ==
  {i \in [keyOk : BOOLEAN, len64 : BOOLEAN, nonce : 0..MaxNonces, byKey : BOOLEAN] :
     ~(i.keyOk /\ i.len64) => (i.nonce = 0 /\ i.byKey)}

\* The outcomes of fetching the well-known file
WellKnownResults ==
  {w \in [kind : {"throw", "http", "badjson", "json"}, idOk : BOOLEAN,
          tok : 0..MaxInFlight] :
     w.kind # "json" => (w.idOk /\ w.tok = 0)}

BehavioralData ==
  {d \in [hasData : BOOLEAN, score : Uniqueness] : ~d.hasData => d.score = 10000}

\* Requests are handled one at a time (cap = Serial); ledger writes started
\* by anchorLevelChange settle at any later time.  The clock stands still.
Next ==
  \/ \E a \in Registrants, ip \in Origins : Register(a, ip)
  \/ \E a \in Registrants : ConfirmStart(a, Serial)
  \/ \E r \in Suspended, o \in {"throw", "notfound", "found"} : ConfirmForum(r, o)
  \/ \E a \in Registrants, k \in 1..3, sig \in BOOLEAN : AnchorSettle(a, k, sig)
  \/ \E a \in Registrants, e \in Endpoints : VerifyStart(a, e, Serial)
  \/ \E r \in Suspended, w \in WellKnownResults : VerifyWellKnown(r, w.kind, w.idOk, w.tok)
  \/ \E r \in Suspended, kind \in {"throw", "bad", "ok"} : VerifyCodeUrl(r, kind)
  \/ \E a \in Registrants, d \in BehavioralData : Behavioral(a, d.hasData, 1, d.score)
  \/ \E a \in Registrants, p \in Providers, d \in Devices : DepinStart(a, p, d, Serial)
  \/ \E r \in Suspended, found \in BOOLEAN : DepinDevice(r, found)
  \/ \E r \in Suspended, sig \in BOOLEAN : DepinAnchor(r, sig)
  \/ \E a \in Registrants : MobileChallenge(a)
  \/ \E a \in Registrants, i \in MobileInputs, pk \in Pubkeys :
        MobileStart(a, i.keyOk, i.len64, i.nonce, IF i.byKey THEN pk ELSE 0, pk, Serial)
  \/ \E r \in Suspended, sig \in BOOLEAN : MobileAnchor(r, sig)
  \/ \E a \in Registrants : Status(a)
  \/ \E a \in Registrants : RestartRevoked(a)

Spec == Init /\ [][Next]_vars

\* The external calls that come back by themselves.  getForumComments arms
\* req.setTimeout(10000) and fetchUrl req.setTimeout(timeoutMs = 5000), both
\* rejecting the promise, so the forum fetch, the well-known fetch and the
\* code-URL fetch always settle.  The mock provider of readDevicePDA returns
\* without any call.  The ledger write is taken to settle as well: the client
\* library gives up once the transaction's blockhash has expired.  For any
\* other provider readDevicePDA awaits connection.getAccountInfo(pubkey) on a
\* Connection built without a timeout, and nothing in the handler bounds it:
\* no fairness is stated for that continuation.
SpecTimeouts ==
  /\ Spec
  /\ WF_vars(\E r \in Suspended, o \in {"throw", "notfound", "found"} : ConfirmForum(r, o))
  /\ WF_vars(\E r \in Suspended, w \in WellKnownResults :
                VerifyWellKnown(r, w.kind, w.idOk, w.tok))
  /\ WF_vars(\E r \in Suspended, kind \in {"throw", "bad", "ok"} : VerifyCodeUrl(r, kind))
  /\ WF_vars(\E r \in Suspended : r.provider = "mock" /\ DepinDevice(r, TRUE))
  /\ WF_vars(\E r \in Suspended, sig \in BOOLEAN : DepinAnchor(r, sig))
  /\ WF_vars(\E r \in Suspended, sig \in BOOLEAN : MobileAnchor(r, sig))

\* Requests for the levels up to L3 overlap: up to MaxInFlight of them are
\* suspended at an await at the same time.
NextRace ==
  \/ \E a \in Registrants, ip \in Origins : Register(a, ip)
  \/ \E a \in Registrants : ConfirmStart(a, MaxInFlight)
  \/ \E r \in Suspended, o \in {"throw", "notfound", "found"} : ConfirmForum(r, o)
  \/ \E a \in Registrants, k \in 1..3, sig \in BOOLEAN : AnchorSettle(a, k, sig)
  \/ \E a \in Registrants, e \in Endpoints : VerifyStart(a, e, MaxInFlight)
  \/ \E r \in Suspended, w \in WellKnownResults : VerifyWellKnown(r, w.kind, w.idOk, w.tok)
  \/ \E r \in Suspended, kind \in {"throw", "bad", "ok"} : VerifyCodeUrl(r, kind)
  \/ \E a \in Registrants, d \in BehavioralData : Behavioral(a, d.hasData, 1, d.score)

SpecRace == Init /\ [][NextRace]_vars

\* initDb reads the database file of an earlier run.  Here it holds agent a1
\* after its hardware binding (L4), every ledger write of which succeeded.
HardwareBoundAgents ==
  setHardwareLevel(setBehavioralLevel(updateOnChainSig(
    verifyAgent(confirmAgent(createAgent([a \in Agents |-> NoAgent], "a1", hashIp(1, 0), 0),
                             "a1", 1, 0),
                "a1", 1, 1, 0, 0), "a1", Sig(3)), "a1"), "a1")

HardwareBoundExt ==
  setHardwareExt(setBehavioralExt([a \in Agents |-> NoExt], "a1", 1, 10000),
                 "a1", "nosana", 1, bindingHash("a1", 1, "nosana", 0), Sig(4))

InitMobile ==
  /\ agents = HardwareBoundAgents
  /\ ext = HardwareBoundExt
  /\ sybil_signals = [a \in Agents |-> [t \in SignalTypes |-> 0]]
  /\ audit_log = [a \in Agents |-> [t \in AuditActions |->
                    IF a = "a1" /\ t # "mobile_verify" THEN 1 ELSE 0]]
  /\ pending_anchors = [a \in Agents |-> [k \in 1..3 |-> <<>>]]
  /\ challenges = [a \in Agents |-> NoChallenge]
  /\ issued = [a \in Agents |-> 0]
  /\ inflight = EmptyBag
  /\ anchors = [a \in Agents |-> [k \in 1..3 |-> 0]]
  /\ now = 0
  /\ resp = NoResp

\* The device-challenge protocol with the clock running and overlapping
\* verification requests.
NextMobile ==
  \/ \E a \in Agents : MobileChallenge(a)
  \/ \E a \in Agents, i \in MobileInputs, pk \in Pubkeys :
        MobileStart(a, i.keyOk, i.len64, i.nonce, IF i.byKey THEN pk ELSE 0, pk, MaxInFlight)
  \/ \E r \in Suspended, sig \in BOOLEAN : MobileAnchor(r, sig)
  \/ Tick

SpecMobile == InitMobile /\ [][NextMobile]_vars

\* the database file read by InitMobile is one the serial runs write
ReachesHardwareBound ==
  ~(agents = HardwareBoundAgents /\ ext = HardwareBoundExt
    /\ audit_log["a1"]["depin_binding"] = 1 /\ inflight = EmptyBag
    /\ \A k \in 1..3 : anchors["a1"][k] = 0 /\ pending_anchors["a1"][k] = <<>>)

\* ------------------------------------------------------ lib/colosseum.js
\* Text is a sequence of symbols.  generateChallengeCode() gives
\* `MOLT-VERIFY-${random}-${timestamp}`: 0 stands for the fixed prefix and the
\* agent's challenge_code for the random part.
generateChallengeCode(code) == <<0, code>>

\* String.prototype.toLowerCase on the author names that occur
toLowerCase(str) ==
  CASE str = "A1" -> "a1"
    [] str = "A2" -> "a2"
    [] OTHER -> str

\* String.prototype.includes
includes(body, text) ==
  \E i \in 1..(Len(body) - Len(text) + 1) :
     SubSeq(body, i, i + Len(text) - 1) = text

\* `for (const comment of comments)`, from comment i on: true at the first
\* comment of the agent that contains the code
RECURSIVE scanComments(_, _, _, _)
scanComments(comments, i, agentId, challengeCode) ==
  IF i > Len(comments)
  THEN FALSE
  ELSE IF /\ toLowerCase(comments[i].author) = toLowerCase(agentId)
          /\ includes(comments[i].body, challengeCode)
  THEN TRUE
  ELSE scanComments(comments, i + 1, agentId, challengeCode)

\* the author compared as written, without toLowerCase
verifyChallengeOnForum_caseSensitive(response, agentId, challengeCode) ==
  IF response.threw
  THEN "throw"
  ELSE IF \E j \in 1..Len(response.comments) :
             /\ response.comments[j].author = agentId
             /\ includes(response.comments[j].body, challengeCode)
  THEN "found"
  ELSE "notfound"

\* the error of getForumComments swallowed instead of thrown again
verifyChallengeOnForum_swallows(response, agentId, challengeCode) ==
  IF response.threw
  THEN "notfound"
  ELSE IF scanComments(response.comments, 1, agentId, challengeCode)
  THEN "found"
  ELSE "notfound"

\* response: what getForumComments settled with, threw (a network error, a
\* timeout, a status other than 200, a body that does not parse) or the
\* comments.  The result is what ConfirmForum takes as its outcome.
verifyChallengeOnForum(response, agentId, challengeCode) ==
  IF response.threw
  THEN "throw"
  ELSE IF scanComments(response.comments, 1, agentId, challengeCode)
  THEN "found"
  ELSE "notfound"

\* fetchUrl(wellKnownUrl) settled with f (threw, or a status and a body that
\* is JSON or not): the branch that Check 1 takes
WellKnownKind(f) ==
  IF f.threw THEN "throw"
  ELSE IF f.status # 200 THEN "http"
  ELSE IF ~f.json THEN "badjson"
  ELSE "json"

\* fetchUrl(codeUrl) settled with c: the branch that Check 2 takes
CodeUrlKind(c) ==
  IF c.threw THEN "throw"
  ELSE IF c.status < 200 \/ c.status >= 400 THEN "bad"
  ELSE "ok"

\* --------------------------------------------- the pending-anchor sweep
\* The periodic sweep re-attempts one entry of its active set (ok: the ledger
\* write succeeded): a successful retry attaches the signature to the agent
\* and removes the entry, a failed one increments the entry's counter.
SweepRetry(e, ok) ==
  /\ e \in getPendingAnchors(pending_anchors)
  /\ IF ok
     THEN /\ agents' = updateOnChainSig(agents, e[1], Sig(e[2]))
          /\ pending_anchors' = removePendingAnchor(pending_anchors, e)
     ELSE /\ pending_anchors' = incrementPendingAnchorRetry(pending_anchors, e)
          /\ UNCHANGED agents
  /\ resp' = NoResp
  /\ UNCHANGED <<ext, sybil_signals, audit_log, challenges, issued, inflight,
                 anchors, now>>

\* Requests for the levels up to L3 are handled one at a time, their ledger
\* writes settle at any later time, and the sweep runs in between.
NextSweep ==
  \/ \E a \in Registrants, ip \in Origins : Register(a, ip)
  \/ \E a \in Registrants : ConfirmStart(a, Serial)
  \/ \E r \in Suspended, o \in {"throw", "notfound", "found"} : ConfirmForum(r, o)
  \/ \E a \in Registrants, e \in Endpoints : VerifyStart(a, e, Serial)
  \/ \E r \in Suspended, w \in WellKnownResults : VerifyWellKnown(r, w.kind, w.idOk, w.tok)
  \/ \E r \in Suspended, kind \in {"throw", "bad", "ok"} : VerifyCodeUrl(r, kind)
  \/ \E a \in Registrants, d \in BehavioralData : Behavioral(a, d.hasData, 1, d.score)
  \/ \E a \in Registrants, k \in 1..3, sig \in BOOLEAN : AnchorSettle(a, k, sig)
  \/ \E e \in PendingRows(pending_anchors), ok \in BOOLEAN : SweepRetry(e, ok)

SpecSweep == Init /\ [][NextSweep]_vars

\* The sweep is periodic: a row that stays in the active set is retried
\* again and again, with either outcome.
SpecSweepFair ==
  /\ SpecSweep
  /\ \A e \in Registrants \X (1..3) \X (1..(MaxPending + 1)) :
        WF_vars(\E ok \in BOOLEAN : SweepRetry(e, ok))

\* ---------------------------------------- the protocols' external answers
Statuses == {199, 200, 201, 399, 400}

Bodies == {<<>>, <<0>>, <<0, 1>>, <<1, 0>>, <<0, 2>>, <<2, 0, 1>>}

Comments == [author : {"a1", "A1", "a2"}, body : Bodies]

ForumResponses ==
  {[threw |-> TRUE, comments |-> <<>>]}
  \cup {[threw |-> FALSE, comments |-> cs] :
          cs \in {<<>>} \cup {<<c>> : c \in Comments}
                 \cup {<<c, d>> : c \in Comments, d \in {x \in Comments : x.body = <<0, 1>>}}}

WellKnownFetches ==
  {f \in [threw : BOOLEAN, status : Statuses, json : BOOLEAN, idOk : BOOLEAN,
          tok : 0..MaxInFlight] :
     /\ f.threw => (f.status = 200 /\ f.json /\ f.idOk /\ f.tok = 0)
     /\ ~f.json => (f.idOk /\ f.tok = 0)}

CodeFetches ==
  {c \in [threw : BOOLEAN, status : Statuses] : c.threw => c.status = 200}

\* Both agents register and run the forum and the endpoint protocol, one
\* request at a time, against every answer of the forum and of their servers.
NextProtocol ==
  \/ \E a \in Agents, ip \in Origins : Register(a, ip)
  \/ \E a \in Agents : ConfirmStart(a, Serial)
  \/ \E r \in Suspended, f \in ForumResponses :
        ConfirmForum(r, verifyChallengeOnForum(f, r.agent,
                           generateChallengeCode(agents[r.agent].challenge_code)))
  \/ \E a \in Agents, e \in Endpoints : VerifyStart(a, e, Serial)
  \/ \E r \in Suspended, f \in WellKnownFetches :
        VerifyWellKnown(r, WellKnownKind(f), f.idOk, f.tok)
  \/ \E r \in Suspended, c \in CodeFetches : VerifyCodeUrl(r, CodeUrlKind(c))

SpecProtocol == Init /\ [][NextProtocol]_vars

\* The forum and endpoint protocol of both agents, with the operator's
\* revocations taking effect at process starts in between.
NextCluster ==
  \/ NextProtocol
  \/ \E a \in Agents : RestartRevoked(a)

SpecCluster == Init /\ [][NextCluster]_vars

\* ------------------------------------------------ lib/behavioral.js
\* Scores are kept in units of 0.0001, the precision the code rounds them to.
SCALE == 10000

\* Distributions: their entries are small whole weights, chosen so that every
\* norm is a whole number and every cosine a multiple of 0.0001.
Vectors == {<<0, 0>>, <<1, 0>>, <<3, 4>>}

\* one agent's features; k sets the scalar features (hours between posts,
\* post length, and the three ratios in units of 0.0001)
Profile(h, t, k) ==
  [timing |-> [hourDistribution |-> h, dayDistribution |-> h, avgInterval |-> k],
   content |-> [avgLength |-> k, vocabRichness |-> 5000 * k,
                questionRatio |-> 5000 * k, codeBlockRatio |-> 5000 * k],
   topics |-> [topicDistribution |-> t]]

FeatureSets == {Profile(h, t, k) : h \in Vectors, t \in Vectors, k \in 0..2}

\* the names in fingerprints.json besides the requesting agent's
Peers == {"p1", "p2"}

\* an entry of fingerprints.json: missing, present without `features`, or
\* present with features
Entries ==
  {[kind |-> "features", features |-> f] : f \in FeatureSets}
    \cup {[kind |-> k, features |-> Profile(<<0, 0>>, <<0, 0>>, 0)] : k \in {"absent", "nofeatures"}}

\* the contents of fingerprints.json in which the requesting agent has an entry
FingerprintFiles ==
  {F \in [Registrants \cup Peers -> Entries] :
     \A a \in Registrants : F[a].kind = "features"}

Abs(x) == IF x < 0 THEN -x ELSE x

Max(x, y) == IF x >= y THEN x ELSE y

\* Math.sqrt, on the squares that the norms of Vectors are
sqrt(n) == CHOOSE s \in 0..n : s * s = n

\* Math.round(x) for x = n / d, n >= 0: the nearest whole number, halves up
round(n, d) == (2 * n + d) \div (2 * d)

RECURSIVE dot(_, _, _)
\* the loop of cosineSimilarity from index i on: the sum of a[j] * b[j]
dot(a, b, i) == IF i > Len(a) THEN 0 ELSE a[i] * b[i] + dot(a, b, i + 1)

\* a zero vector given cosine 1 with everything
cosineSimilarity_zeroIsOne(a, b) ==
  IF Len(a) # Len(b)
  THEN 0
  ELSE IF dot(a, a, 1) = 0 \/ dot(b, b, 1) = 0
  THEN SCALE
  ELSE (SCALE * dot(a, b, 1)) \div (sqrt(dot(a, a, 1)) * sqrt(dot(b, b, 1)))

cosineSimilarity(a, b) ==
  IF Len(a) # Len(b)
  THEN 0
  ELSE IF dot(a, a, 1) = 0 \/ dot(b, b, 1) = 0
  THEN 0
  ELSE (SCALE * dot(a, b, 1)) \div (sqrt(dot(a, a, 1)) * sqrt(dot(b, b, 1)))

\* `1 - Math.abs(x - y) / Math.max(x, y, 1)`
ratioSim(x, y) == SCALE - (SCALE * Abs(x - y)) \div Max(Max(x, y), 1)

\* the four scores of combinedSimilarity(f1, f2); timing and content are
\* summed in units of 0.00001 and combined in units of 0.000001 before the
\* rounding to 0.0001
combinedSimilarity(f1, f2) ==
  LET hourSim == cosineSimilarity(f1.timing.hourDistribution, f2.timing.hourDistribution)
      daySim == cosineSimilarity(f1.timing.dayDistribution, f2.timing.dayDistribution)
      intervalSim == ratioSim(f1.timing.avgInterval, f2.timing.avgInterval)
      timing == hourSim * 5 + daySim * 3 + intervalSim * 2
      lenSim == ratioSim(f1.content.avgLength, f2.content.avgLength)
      vocabSim == SCALE - Abs(f1.content.vocabRichness - f2.content.vocabRichness)
      qSim == SCALE - Abs(f1.content.questionRatio - f2.content.questionRatio)
      codeSim == SCALE - Abs(f1.content.codeBlockRatio - f2.content.codeBlockRatio)
      content == lenSim * 3 + vocabSim * 3 + qSim * 2 + codeSim * 2
      topic == cosineSimilarity(f1.topics.topicDistribution, f2.topics.topicDistribution)
  IN [timing |-> round(timing, 10),
      content |-> round(content, 10),
      topic |-> round(topic, 1),
      combined |-> round(timing * 3 + content * 3 + topic * 40, 100)]

RECURSIVE totalSim(_, _, _)
\* the loop of computeUniqueness over the entries named in `sample`
totalSim(agentFeatures, fingerprints, sample) ==
  IF sample = {}
  THEN 0
  ELSE LET n == CHOOSE x \in sample : TRUE IN
       combinedSimilarity(agentFeatures, fingerprints[n].features).combined
         + totalSim(agentFeatures, fingerprints, sample \ {n})

\* "no comparisons" answered with 0 instead of 1
computeUniqueness_emptyIsZero(agentFeatures, excludeAgent, fingerprints) ==
  LET others == {n \in DOMAIN fingerprints :
                   fingerprints[n].kind # "absent" /\ n # excludeAgent}
      sample == {n \in others : fingerprints[n].kind = "features"}
      comparisons == Cardinality(sample)
  IN IF others = {}
     THEN 0
     ELSE IF comparisons = 0
     THEN 0
     ELSE round(SCALE * comparisons - totalSim(agentFeatures, fingerprints, sample),
                comparisons)

computeUniqueness(agentFeatures, excludeAgent, fingerprints) ==
  LET others == {n \in DOMAIN fingerprints :
                   fingerprints[n].kind # "absent" /\ n # excludeAgent}
      sample == {n \in others : fingerprints[n].kind = "features"}
      comparisons == Cardinality(sample)
  IN IF others = {}
     THEN SCALE
     ELSE IF comparisons = 0
     THEN SCALE
     ELSE round(SCALE * comparisons - totalSim(agentFeatures, fingerprints, sample),
                comparisons)

\* sha256 of the serialized features: equal exactly for equal features
generateFingerprint(features) == features

\* a1, registered, confirmed and endpoint-verified: at level 2
VerifiedAgents ==
  updateOnChainSig(
    verifyAgent(confirmAgent(createAgent([a \in Agents |-> NoAgent], "a1", hashIp(1, 0), 0),
                             "a1", 1, 0), "a1", 1, 1, 0, 0), "a1", Sig(2))

InitSimilarity ==
  /\ agents = VerifiedAgents
  /\ ext = [a \in Agents |-> NoExt]
  /\ sybil_signals = [a \in Agents |-> [t \in SignalTypes |-> 0]]
  /\ audit_log = [a \in Agents |-> [t \in AuditActions |->
                    IF a = "a1" /\ t \in {"register", "confirm", "verify"} THEN 1 ELSE 0]]
  /\ pending_anchors = [a \in Agents |-> [k \in 1..3 |-> <<>>]]
  /\ challenges = [a \in Agents |-> NoChallenge]
  /\ issued = [a \in Agents |-> 0]
  /\ inflight = EmptyBag
  /\ anchors = [a \in Agents |-> [k \in 1..3 |-> 0]]
  /\ now = 0
  /\ resp = NoResp

\* The agent at level 2 asks for behavioral verification, against every
\* content of fingerprints.json.
NextSimilarity ==
  \E a \in Registrants, F \in FingerprintFiles :
     /\ agents[a].level = 2
     /\ Behavioral(a, TRUE, generateFingerprint(F[a].features),
                   computeUniqueness(F[a].features, a, F))

SpecSimilarity == InitSimilarity /\ [][NextSimilarity]_vars

\* --------------------------------------------------- advisory signals
\* A row of type t is added to agent a's Sybil signals by activity that is
\* not a request for a: the rows an agent holds are whatever this and other
\* agents' registrations and verifications have left in the table.
RecordSignal(a, t) ==
  /\ sybil_signals[a][t] < MaxSignals - 1
  /\ sybil_signals' = addSybilSignal(sybil_signals, a, t)
  /\ UNCHANGED <<agents, ext, audit_log, pending_anchors, challenges, issued,
                 inflight, anchors, now, resp>>

\* One agent goes through all the levels, one request at a time, while
\* signal rows are recorded for it.
NextAdvisory ==
  \/ \E a \in Registrants, ip \in Origins : Register(a, ip)
  \/ \E a \in Registrants : ConfirmStart(a, Serial)
  \/ \E r \in Suspended, o \in {"throw", "notfound", "found"} : ConfirmForum(r, o)
  \/ \E a \in Registrants, e \in Endpoints : VerifyStart(a, e, Serial)
  \/ \E r \in Suspended, w \in WellKnownResults : VerifyWellKnown(r, w.kind, w.idOk, w.tok)
  \/ \E r \in Suspended, kind \in {"throw", "bad", "ok"} : VerifyCodeUrl(r, kind)
  \/ \E a \in Registrants, d \in BehavioralData : Behavioral(a, d.hasData, 1, d.score)
  \/ \E a \in Registrants, p \in Providers, d \in Devices : DepinStart(a, p, d, Serial)
  \/ \E r \in Suspended, found \in BOOLEAN : DepinDevice(r, found)
  \/ \E r \in Suspended, sig \in BOOLEAN : DepinAnchor(r, sig)
  \/ \E a \in Registrants : MobileChallenge(a)
  \/ \E a \in Registrants, i \in MobileInputs, pk \in Pubkeys :
        MobileStart(a, i.keyOk, i.len64, i.nonce, IF i.byKey THEN pk ELSE 0, pk, Serial)
  \/ \E r \in Suspended, sig \in BOOLEAN : MobileAnchor(r, sig)
  \/ \E a \in Registrants, t \in SignalTypes : RecordSignal(a, t)

SpecAdvisory == Init /\ [][NextAdvisory]_vars

\* ------------------------------------------------------------ expiry
\* One agent goes through the levels up to L3, one request at a time, while
\* the clock runs.
NextExpiry ==
  \/ \E a \in Registrants, ip \in Origins : Register(a, ip)
  \/ \E a \in Registrants : ConfirmStart(a, Serial)
  \/ \E r \in Suspended, o \in {"throw", "notfound", "found"} : ConfirmForum(r, o)
  \/ \E a \in Registrants, e \in Endpoints : VerifyStart(a, e, Serial)
  \/ \E r \in Suspended, w \in WellKnownResults : VerifyWellKnown(r, w.kind, w.idOk, w.tok)
  \/ \E r \in Suspended, kind \in {"throw", "bad", "ok"} : VerifyCodeUrl(r, kind)
  \/ \E a \in Registrants, d \in BehavioralData : Behavioral(a, d.hasData, 1, d.score)
  \/ now < ExpiryTime /\ Tick

SpecExpiry == Init /\ [][NextExpiry]_vars

\* ------------------------------------------------ registration quota
InitQuota ==
  /\ agents = [a \in Ids |-> NoAgent]
  /\ ext = [a \in Ids |-> NoExt]
  /\ sybil_signals = [a \in Ids |-> [t \in SignalTypes |-> 0]]
  /\ audit_log = [a \in Ids |-> [t \in AuditActions |-> 0]]
  /\ pending_anchors = [a \in Ids |-> [k \in 1..3 |-> <<>>]]
  /\ challenges = [a \in Ids |-> NoChallenge]
  /\ issued = [a \in Ids |-> 0]
  /\ inflight = EmptyBag
  /\ anchors = [a \in Ids |-> [k \in 1..3 |-> 0]]
  /\ now = 0
  /\ resp = NoResp

\* the first id of IdOrder that has no row yet
NextId == IdOrder[Cardinality(getAllAgents) + 1]

\* Clients at two addresses register fresh ids, one after the other, over
\* two calendar days; nearly all of them share the first address.
NextQuota ==
  \/ /\ Cardinality(getAllAgents) < Len(IdOrder)
     /\ \E ip \in QuotaOrigins :
           /\ ip # 1 =>
                Cardinality({a \in getAllAgents : agents[a].ip_hash[1] = ip}) < MaxOther
           /\ Register(NextId, ip)
  \/ now < QuotaTime /\ Tick

SpecQuota == InitQuota /\ [][NextQuota]_vars

\* ------------------------------------------------ registration bodies
InitRegister ==
  /\ agents = [a \in AgentIdTexts |-> NoAgent]
  /\ ext = [a \in AgentIdTexts |-> NoExt]
  /\ sybil_signals = [a \in AgentIdTexts |-> [t \in SignalTypes |-> 0]]
  /\ audit_log = [a \in AgentIdTexts |-> [t \in AuditActions |-> 0]]
  /\ pending_anchors = [a \in AgentIdTexts |-> [k \in 1..3 |-> <<>>]]
  /\ challenges = [a \in AgentIdTexts |-> NoChallenge]
  /\ issued = [a \in AgentIdTexts |-> 0]
  /\ inflight = EmptyBag
  /\ anchors = [a \in AgentIdTexts |-> [k \in 1..3 |-> 0]]
  /\ now = 0
  /\ resp = NoResp

\* clients at two addresses send registration bodies of every shape
NextRegister ==
  \E agentId \in AgentIdTexts, acceptTerms \in BOOLEAN, ip \in QuotaOrigins :
     RegisterRequest(agentId, acceptTerms, ip)

SpecRegister == InitRegister /\ [][NextRegister]_vars

\* ------------------------------------------------------ anchor memos
\* const LEVEL_LABELS
LEVEL_LABELS ==
  [l \in 0..5 |-> CASE l = 0 -> "registered" [] l = 1 -> "confirmed"
                     [] l = 2 -> "verified" [] l = 3 -> "behavioral"
                     [] l = 4 -> "hardware" [] l = 5 -> "mobile"]

\* `molt:sv:${agentId}:L${level}:${label}:${Math.floor(Date.now() / 1000)}`
\* built at clock value t
buildMemo(agentId, level, label, t) == <<agentId, level, label, t \div SEC_MS>>

\* The end of the L1, L2 and L3 handlers, from the commit on: the row is
\* written, the handler builds `memo`, then calls anchorLevelChange, which
\* builds the memo it sends with a call of buildMemo of its own; `elapsed`
\* is the time the clock advances between the two calls.  The write stays
\* outstanding, and its callbacks keep the handler's `memo`.
AnchorLevelChange(a, elapsed) ==
  LET level == agents[a].level + 1 IN
  /\ agents[a].present
  /\ level <= 3
  /\ now + elapsed <= MemoTime
  /\ agents' = CASE level = 1 -> confirmAgent(agents, a, 1, now)
                  [] level = 2 -> verifyAgent(agents, a, 1, 1, 0, now)
                  [] level = 3 -> setBehavioralLevel(agents, a)
  /\ now' = now + elapsed
  /\ inflight' = suspend([op |-> "anchor", agent |-> a,
                          memo |-> buildMemo(a, level, LEVEL_LABELS[level], now),
                          sent |-> buildMemo(a, level, LEVEL_LABELS[level], now')])
  /\ UNCHANGED <<ext, sybil_signals, audit_log, pending_anchors, challenges,
                 issued, anchors, resp>>

\* `.then(sig => ...)` and `.catch(...)` of the outstanding write r; the
\* pending_anchors table is kept here as the sequence of its rows
AnchorThen(r, sig) ==
  /\ r.op = "anchor"
  /\ inflight' = resume(r)
  /\ IF sig
     THEN /\ agents' = updateOnChainSig(agents, r.agent, r.sent)
          /\ UNCHANGED pending_anchors
     ELSE /\ pending_anchors' =
               Append(pending_anchors, [agent_id |-> r.agent, memo |-> r.memo, retry_count |-> 0])
          /\ UNCHANGED agents
  /\ UNCHANGED <<ext, sybil_signals, audit_log, challenges, issued, anchors, now, resp>>

\* a1 has registered
InitMemo ==
  /\ agents = createAgent([a \in Agents |-> NoAgent], "a1", hashIp(1, 0), 0)
  /\ ext = [a \in Agents |-> NoExt]
  /\ sybil_signals = [a \in Agents |-> [t \in SignalTypes |-> 0]]
  /\ audit_log = [a \in Agents |-> [t \in AuditActions |-> 0]]
  /\ pending_anchors = <<>>
  /\ challenges = [a \in Agents |-> NoChallenge]
  /\ issued = [a \in Agents |-> 0]
  /\ inflight = EmptyBag
  /\ anchors = [a \in Agents |-> [k \in 1..3 |-> 0]]
  /\ now = 0
  /\ resp = NoResp

\* a1 goes through L1 to L3 while the clock runs, and its ledger writes
\* settle at any time
NextMemo ==
  \/ \E a \in Registrants, elapsed \in 0..1 : AnchorLevelChange(a, elapsed)
  \/ \E r \in Suspended, sig \in BOOLEAN : AnchorThen(r, sig)
  \/ now < MemoTime /\ Tick

SpecMemo == InitMemo /\ [][NextMemo]_vars

\* ====================================================== properties
AuditOf(op) ==
  CASE op = "confirm" -> "confirm"
    [] op = "verify" -> "verify"
    [] op = "behavioral" -> "behavioral"
    [] op = "depin" -> "depin_binding"
    [] op = "mobile" -> "mobile_verify"

\* this step commits transition op of agent a (its audit row is appended)
Commits(op, a) == audit_log'[a][AuditOf(op)] = audit_log[a][AuditOf(op)] + 1

\* this step suspends a new request op of agent a at an await
NewSuspended(op, a) ==
  \E r \in BagToSet(inflight') :
     /\ r.op = op
     /\ r.agent = a
     /\ CopiesIn(r, inflight') > CopiesIn(r, inflight)
     /\ BagCardinality(inflight') > BagCardinality(inflight)

\* this step is the arrival of a request op for agent a: the handler runs
\* from its start, and either answers at once or suspends at its first await
Arrival(op, a) ==
  \/ resp'.op = op /\ resp'.agent = a /\ inflight' = inflight
  \/ NewSuspended(op, a)

Untouched == UNCHANGED <<dbvars, challenges, issued, inflight, anchors>>

\* C1: under every interleaving of requests, an agent's stored level never
\* decreases.
C1_LevelNeverDecreases ==
  [][\A a \in Agents : agents'[a].level >= agents[a].level]_vars

\* C2: an agent is created at level 0 and every committed transition to
\* level k is written over a stored level of k-1, so the level moves by
\* exactly one.
C2_StrictlyLinear ==
  [][\A a \in Agents :
       /\ (~agents[a].present /\ agents'[a].present) => agents'[a].level = 0
       /\ agents'[a].level # agents[a].level => agents'[a].level = agents[a].level + 1
       /\ \A op \in TransitionOps :
            Commits(op, a) => /\ agents[a].level = Target(op) - 1
                              /\ agents'[a].level = Target(op)]_vars

\* C5: a transition is committed at most once per agent, also when duplicate
\* requests overlap: one audit row and at most one anchor per level.
C5_NoDoubleApply ==
  \A a \in Agents : \A op \in TransitionOps : audit_log[a][AuditOf(op)] <= 1

\* C10: no request waits for a ledger write: the level is committed and the
\* response produced while the write is still outstanding.
C10_NeverAwaitsLedger ==
  \A r \in Suspended : r.pc \notin {"anchorBinding", "anchorMobile"}

\* C3: a revoked agent stays as it is: its level and its revoked flag never
\* change again, every confirm, verify, behavioral, depin and mobile request
\* for it is answered with the 403 rejection and leaves the database, the
\* challenge store, the requests in flight and the anchors unchanged, and a
\* status request reports revoked: true.
C3_RevokedIsTerminal ==
  [][\A a \in Agents :
       (agents[a].present /\ agents[a].revoked # 0) =>
          /\ agents'[a].level = agents[a].level
          /\ agents'[a].revoked = agents[a].revoked
          /\ \A op \in TransitionOps :
               Arrival(op, a) =>
                  /\ resp' = Response(op, a, 403, FALSE, -1, -1, "revoked")
                  /\ Untouched
          /\ Arrival("status", a) => resp'.revoked /\ resp'.level = agents[a].level]_vars

\* a revoked agent that had reached L3 is refused its hardware binding
C3_Witness ==
  \E a \in Agents :
     /\ agents[a].revoked # 0
     /\ agents[a].level = 3
     /\ resp = Response("depin", a, 403, FALSE, -1, -1, "revoked")

\* C4 as stated: a transition requested for any agent that is already at or
\* above the target level answers success with the current level and changes
\* nothing.
C4_IdempotentForEveryAgent ==
  [][\A a \in Agents : \A op \in TransitionOps :
       (agents[a].present /\ agents[a].level >= Target(op) /\ Arrival(op, a)) =>
          /\ resp'.success
          /\ resp'.status = 200
          /\ resp'.level = agents[a].level
          /\ Untouched]_vars

\* C4: a transition requested for an agent that is not revoked and is already
\* at or above the target level answers success with the current level,
\* without verifying again (nothing is suspended at a fetch or a ledger write)
\* and without changing the database, the challenge store or the anchors; for
\* a revoked agent the answer is the 403 rejection instead.
C4_IdempotentUnlessRevoked ==
  [][\A a \in Agents : \A op \in TransitionOps :
       (agents[a].present /\ agents[a].level >= Target(op) /\ Arrival(op, a)) =>
          /\ Untouched
          /\ IF agents[a].revoked # 0
             THEN resp' = Response(op, a, 403, FALSE, -1, -1, "revoked")
             ELSE resp' = Response(op, a, 200, TRUE, agents[a].level, -1, "already")]_vars

\* a verify request for an agent that has gone on to L3 is answered with
\* level 3
C4_Witness ==
  \E a \in Agents :
     /\ agents[a].revoked = 0
     /\ agents[a].level = 3
     /\ resp = Response("verify", a, 200, TRUE, 3, -1, "already")

\* C6 as stated: a transition requested for an unknown agent, or for an agent
\* below the level before the target, is rejected with an answer that names
\* the required prior level, and changes nothing.
C6_RejectionNamesPriorLevel ==
  [][\A a \in Agents : \A op \in TransitionOps :
       ((~agents[a].present \/ agents[a].level < Target(op) - 1) /\ Arrival(op, a)) =>
          /\ ~resp'.success
          /\ resp'.requiredLevel = Target(op) - 1
          /\ Untouched]_vars

\* C6: a transition requested for an unknown agent is answered 404, for a
\* revoked agent 403, and for a known agent that is not revoked and is below
\* the level before the target 400 with the required prior level (and, except
\* from verify, its current level); only the last names a level, and in all
\* three nothing is changed.
C6_PreconditionRejection ==
  [][\A a \in Agents : \A op \in TransitionOps :
       ((~agents[a].present \/ agents[a].level < Target(op) - 1) /\ Arrival(op, a)) =>
          /\ Untouched
          /\ resp' = IF ~agents[a].present
                     THEN Response(op, a, 404, FALSE, -1, -1, "not_found")
                     ELSE IF agents[a].revoked # 0
                     THEN Response(op, a, 403, FALSE, -1, -1, "revoked")
                     ELSE Response(op, a, 400, FALSE,
                                   IF op = "verify" THEN -1 ELSE agents[a].level,
                                   Target(op) - 1, "precondition")]_vars

\* a mobile request for an agent at L2 is rejected naming level 4
C6_Witness ==
  \E a \in Agents :
     /\ agents[a].level = 2
     /\ resp = Response("mobile", a, 400, FALSE, 2, 4, "precondition")

\* this step is a mobile verification request of an agent at L4 that is not
\* revoked: the handler reaches verifyChallenge
MobileAttempt(a) ==
  /\ agents[a].present
  /\ agents[a].revoked = 0
  /\ agents[a].level = 4
  /\ Arrival("mobile", a)

\* this step's request passed verifyChallenge
MobileVerified(a) == NewSuspended("mobile", a)

MobileRejection(a, error) == Response("mobile", a, 400, FALSE, -1, -1, error)

\* C7 as stated: once a challenge has been used, every later verification
\* attempt against it fails with the error "already used".
C7_LaterAttemptsAlreadyUsed ==
  [][\A a \in Agents :
       (MobileAttempt(a) /\ challenges[a].present /\ challenges[a].used) =>
          /\ ~MobileVerified(a)
          /\ resp' = MobileRejection(a, "already_used")]_vars

\* C7: a challenge verifies at most once under every interleaving of
\* attempts: a successful verification finds the challenge unused and marks
\* it used in the same step, a used challenge is never unused again, and
\* while the agent is at L4 every later attempt against a used challenge
\* fails and leaves the agent as it is, with the error "already used" until
\* the challenge's expiry time and "expired" after it.
C7_SingleUse ==
  [][\A a \in Agents :
       /\ MobileVerified(a) =>
             /\ challenges[a].present
             /\ ~challenges[a].used
             /\ challenges'[a] = [challenges[a] EXCEPT !.used = TRUE]
       /\ (MobileAttempt(a) /\ challenges[a].present /\ challenges[a].used) =>
             /\ ~MobileVerified(a)
             /\ resp' = MobileRejection(a, IF now > challenges[a].expiresAt
                                           THEN "expired" ELSE "already_used")
             /\ UNCHANGED <<dbvars, inflight, anchors>>
       /\ (/\ challenges[a].present
           /\ challenges[a].used
           /\ challenges'[a].present
           /\ challenges'[a].challenge = challenges[a].challenge) =>
             challenges'[a].used]_vars

\* a second attempt arrives while the first, verified one awaits its anchor
C7_Witness ==
  \E a \in Agents :
     /\ \E r \in Suspended : r.op = "mobile" /\ r.agent = a
                             /\ r.challengeResponse = challenges[a].challenge
     /\ challenges[a].used
     /\ resp = MobileRejection(a, "already_used")

\* C8: a challenge is issued with an expiry time CHALLENGE_EXPIRY_MS (five
\* minutes) after its issue; a verification succeeds only up to that time, and
\* an attempt after it fails with "expired", raises no level, starts no
\* ledger write and deletes the challenge, so that it cannot be used later.
C8_ExpiredChallengeFails ==
  [][\A a \in Agents :
       /\ issued'[a] # issued[a] =>
             /\ challenges'[a].present
             /\ challenges'[a].expiresAt = now + CHALLENGE_EXPIRY_MS
       /\ MobileVerified(a) => now <= challenges[a].expiresAt
       /\ (MobileAttempt(a) /\ challenges[a].present /\ now > challenges[a].expiresAt) =>
             /\ ~MobileVerified(a)
             /\ resp' = MobileRejection(a, "expired")
             /\ ~challenges'[a].present
             /\ UNCHANGED <<dbvars, inflight, anchors>>]_vars

\* an attempt after the expiry time has been rejected and the challenge is
\* gone
C8_Witness ==
  \E a \in Agents :
     /\ agents[a].level = 4
     /\ issued[a] > 0
     /\ ~challenges[a].present
     /\ resp = MobileRejection(a, "expired")

\* C9: the store holds one challenge per agent, the one issued last: issuing
\* a challenge overwrites the stored one with a fresh, unused nonce, and a
\* verification succeeds only with a signature over the nonce issued last.
C9_OnlyNewestChallenge ==
  [][\A a \in Agents :
       /\ issued'[a] # issued[a] =>
             /\ issued'[a] = issued[a] + 1
             /\ challenges'[a].present
             /\ challenges'[a].challenge = issued'[a]
             /\ ~challenges'[a].used
       /\ challenges'[a].present => challenges'[a].challenge = issued'[a]
       /\ MobileVerified(a) =>
             \A r \in BagToSet(inflight') :
                (r.op = "mobile" /\ r.agent = a
                   /\ CopiesIn(r, inflight') > CopiesIn(r, inflight))
                => r.challengeResponse = issued[a]]_vars

\* a second challenge replaced the first unused one, and the signature over
\* the second verified
C9_Witness ==
  \E a \in Agents :
     /\ issued[a] = 2
     /\ \A r \in Suspended : r.challengeResponse = 2
     /\ BagCardinality(inflight) = 1
     /\ challenges[a].present /\ challenges[a].challenge = 2 /\ challenges[a].used

\* this step settles the ledger write of agent a's transition to level k
\* without a signature: for L1..L3 the .then/.catch callback runs and leaves
\* the agent row as it is, for L4 and L5 the handler stores a null signature
FailedWrite(a, k) ==
  CASE k \in 1..3 -> /\ anchors'[a][k] = anchors[a][k] - 1
                     /\ agents'[a] = agents[a]
    [] k = 4 -> Commits("depin", a) /\ ext'[a].depin_on_chain_sig = 0
    [] k = 5 -> Commits("mobile", a) /\ ext'[a].mobile_on_chain_sig = 0

\* this step stores a pending-anchor entry with retry counter 0 for the memo
\* of agent a's transition to level k
Queued(a, k) ==
  IF k \in 1..3
  THEN pending_anchors'[a][k] = Append(pending_anchors[a][k], 0)
  ELSE pending_anchors' # pending_anchors

\* C11: whenever the ledger write of a transition to L1..L5 fails, the
\* transition's memo is stored as a pending-anchor entry with retry counter 0.
C11_FailedWriteIsQueued ==
  [][\A a \in Agents : \A k \in 1..5 : FailedWrite(a, k) => Queued(a, k)]_vars

C13_PendingLifecycle ==
  [][\A a \in Agents : \A k \in 1..3 :
       LET old == pending_anchors[a][k]
           new == pending_anchors'[a][k]
       IN
       /\ \/ new = old
          \/ new = Append(old, 0)
          \/ \E i \in 1..Len(old) :
                /\ old[i] < RETRY_CEILING
                /\ new = SubSeq(old, 1, i - 1) \o SubSeq(old, i + 1, Len(old))
                /\ agents'[a].on_chain_sig = Sig(k)
          \/ \E i \in 1..Len(old) :
                /\ old[i] < RETRY_CEILING
                /\ new = [old EXCEPT ![i] = @ + 1]
                /\ agents' = agents
       /\ \A i \in 1..Len(old) :
             old[i] >= RETRY_CEILING =>
                \E j \in 1..Len(new) :
                   new[j] = old[i] /\ <<a, k, j>> \in fullDump(pending_anchors')]_vars

\* the entry of the L1 memo stays stored at the ceiling, the entry of the L2
\* memo was kept with two failed retries counted, and the entry of the L3 memo
\* was removed by a successful retry
C13_Witness ==
  \E a \in Agents :
     /\ pending_anchors[a][1] = <<RETRY_CEILING>>
     /\ pending_anchors[a][2] = <<2>>
     /\ pending_anchors[a][3] = <<>>
     /\ agents[a].level = 3
     /\ agents[a].on_chain_sig = Sig(3)
     /\ \A k \in 1..3 : anchors[a][k] = 0

\* this step resumes the suspended request r
Resumes(r) == CopiesIn(r, inflight') < CopiesIn(r, inflight)

\* this step takes request r from Check 1 to Check 2 with errors errs
Continued(r, errs) ==
  inflight' = resume(r) (+) SetToBag({[r EXCEPT !.pc = "codeUrl", !.errors = errs]})

WellKnownOk(f, token) ==
  ~f.threw /\ f.status = 200 /\ f.json /\ f.idOk /\ f.tok = token

CodeUrlOk(c) == ~c.threw /\ c.status \in 200..399

\* C14: endpoint verification succeeds exactly when the well-known file fetch
\* returns HTTP 200 with valid JSON whose agentId is the agent's id and whose
\* token is the agent's challenge token, and the code URL fetch returns a
\* status in 200..399: then the agent is raised to level 2 with the declared
\* endpoint and code URL stored.  In every other case the answer is a 400
\* with the failures found (a token that differs is among them) and the
\* database is left as it was.
C14_EndpointVerification ==
  [][\A r \in Suspended :
       LET a == r.agent IN
       /\ \A f \in WellKnownFetches :
             VerifyWellKnown(r, WellKnownKind(f), f.idOk, f.tok) =>
                /\ Continued(r, {}) <=> WellKnownOk(f, r.token)
                /\ (WellKnownKind(f) = "json" /\ f.tok # r.token) =>
                      \E q \in BagToSet(inflight') : "token_mismatch" \in q.errors
       /\ \A c \in CodeFetches :
             VerifyCodeUrl(r, CodeUrlKind(c)) =>
                IF r.errors = {} /\ CodeUrlOk(c)
                THEN /\ resp' = Response("verify", a, 200, TRUE, 2, -1, "")
                     /\ agents'[a].level = 2
                     /\ agents'[a].api_endpoint = r.apiEndpoint
                     /\ agents'[a].code_url # 0
                ELSE /\ resp'.op = "verify" /\ resp'.agent = a
                     /\ resp'.status = 400 /\ ~resp'.success
                     /\ resp'.failures # {}
                     /\ r.errors \subseteq resp'.failures
                     /\ UNCHANGED dbvars]_vars

\* the well-known file held another token: the failure is listed and the
\* agent is still at level 1 without endpoint
C14_Witness ==
  \E a \in Agents :
     /\ resp = [Response("verify", a, 400, FALSE, -1, -1, "verification_failed")
                  EXCEPT !.failures = {"token_mismatch"}]
     /\ agents[a].level = 1
     /\ agents[a].api_endpoint = 0
     /\ agents[a].code_url = 0

\* C15: whatever Check 1 finds, the handler goes on to fetch the code URL
\* before it answers, and the failures of the answer are those of Check 1
\* together with that of Check 2.
C15_FailuresCollected ==
  [][\A r \in Suspended :
       /\ (r.op = "verify" /\ r.pc = "wellKnown" /\ Resumes(r)) =>
             /\ resp' = NoResp
             /\ \E q \in BagToSet(inflight') :
                   /\ q.op = "verify" /\ q.agent = r.agent /\ q.pc = "codeUrl"
                   /\ CopiesIn(q, inflight') > CopiesIn(q, inflight)
       /\ \A c \in CodeFetches :
             (VerifyCodeUrl(r, CodeUrlKind(c)) /\ ~resp'.success) =>
                resp'.failures =
                   r.errors \cup (IF c.threw THEN {"code_fetch_failed"}
                                  ELSE IF c.status \notin 200..399 THEN {"code_status"}
                                  ELSE {})]_vars

\* one answer lists a failure of the well-known file and one of the code URL
C15_Witness ==
  \E a \in Agents :
     /\ resp.op = "verify" /\ resp.agent = a /\ resp.status = 400
     /\ resp.failures = {"agentId_mismatch", "token_mismatch", "code_status"}
     /\ agents[a].level = 1

\* the two spellings of an agent id that differ in case only
EqualIgnoringCase(x, y) ==
  \E c \in {{"a1", "A1"}, {"a2", "A2"}} : x \in c /\ y \in c

\* the forum answered with a comment of agent a that contains a's code
Posted(f, a) ==
  /\ ~f.threw
  /\ \E i \in 1..Len(f.comments) :
        /\ EqualIgnoringCase(f.comments[i].author, a)
        /\ \E n \in 0..1, m \in 0..1 :
              /\ Len(f.comments[i].body) = n + 2 + m
              /\ SubSeq(f.comments[i].body, n + 1, n + 2)
                   = generateChallengeCode(agents[a].challenge_code)

\* C16: the forum check succeeds exactly when some fetched comment has an
\* author equal to the agent id ignoring case and a body containing the
\* agent's challenge code; then the agent is raised to level 1 and a new
\* challenge token is stored, and otherwise the request fails and the
\* database is left as it was.
C16_ForumVerification ==
  [][\A r \in Suspended : \A f \in ForumResponses :
       LET a == r.agent IN
       ConfirmForum(r, verifyChallengeOnForum(f, a,
                          generateChallengeCode(agents[a].challenge_code))) =>
          IF Posted(f, a)
          THEN /\ resp' = Response("confirm", a, 200, TRUE, 1, -1, "")
               /\ agents'[a].level = 1
               /\ agents'[a].challenge_token # 0
               /\ agents'[a].challenge_token # agents[a].challenge_token
          ELSE /\ ~resp'.success
               /\ resp'.op = "confirm" /\ resp'.agent = a
               /\ UNCHANGED <<dbvars, anchors, challenges>>]_vars

\* a1 is confirmed while a2, for which the forum showed no matching comment,
\* is not
C16_Witness ==
  /\ agents["a1"].level = 1
  /\ agents["a1"].challenge_token # 0
  /\ agents["a2"].present
  /\ agents["a2"].level = 0
  /\ agents["a2"].challenge_token = 0
  /\ resp = Response("confirm", "a2", 400, FALSE, -1, -1, "code_not_found")

\* C17: when fetching the forum comments fails, the request is answered with
\* the 502 external-service failure and ends there (it is not suspended
\* again for another attempt), and the database, the anchors and the
\* challenge store are left as they were: no level, token, signal or anchor.
C17_ForumFailureReported ==
  [][\A r \in Suspended : \A f \in ForumResponses :
       LET a == r.agent IN
       (/\ f.threw
        /\ ConfirmForum(r, verifyChallengeOnForum(f, a,
                              generateChallengeCode(agents[a].challenge_code)))) =>
          /\ resp' = Response("confirm", a, 502, FALSE, -1, -1, "forum_failure")
          /\ inflight' = resume(r)
          /\ UNCHANGED <<dbvars, anchors, challenges>>]_vars

\* the forum could not be reached for a1, which is still at level 0 without
\* token, signal or anchor
C17_Witness ==
  /\ resp = Response("confirm", "a1", 502, FALSE, -1, -1, "forum_failure")
  /\ agents["a1"].level = 0
  /\ agents["a1"].challenge_token = 0
  /\ \A t \in SignalTypes : sybil_signals["a1"][t] = 0
  /\ \A k \in 1..3 : anchors["a1"][k] = 0 /\ pending_anchors["a1"][k] = <<>>
  /\ inflight = EmptyBag

RegisteredOn(ag, h, d) ==
  {a \in DOMAIN ag : ag[a].present /\ ag[a].ip_hash = h /\ today(ag[a].registered_at) = d}

Hashes == {hashIp(ip, t) : ip \in QuotaOrigins, t \in 0..(QuotaTime + 1)}
Days == {today(t) : t \in 0..(QuotaTime + 1)}

\* C19: no origin hash has more than 10 agents registered on one calendar
\* day, and a registration of a new id arriving when its origin hash already
\* has 10 of that day is answered 429 and creates no agent, audit entry or
\* signal.
C19_DailyQuota ==
  [][/\ \A h \in Hashes : \A d \in Days :
          Cardinality(RegisteredOn(agents', h, d)) <= DAILY_LIMIT
     /\ \A a \in Ids : \A ip \in QuotaOrigins :
          (/\ ~agents[a].present
           /\ Cardinality(RegisteredOn(agents, hashIp(ip, now), today(now))) >= DAILY_LIMIT
           /\ Register(a, ip)) =>
             /\ resp' = Response("register", a, 429, FALSE, -1, -1, "quota")
             /\ UNCHANGED <<dbvars, challenges, issued, inflight, anchors>>]_vars

\* the eleventh id was turned away at an address that had registered ten
\* agents that day, and has no row, audit entry or signal
C19_Witness ==
  /\ resp = Response("register", "a11", 429, FALSE, -1, -1, "quota")
  /\ ~agents["a11"].present
  /\ audit_log["a11"]["register"] = 0
  /\ \A t \in SignalTypes : sybil_signals["a11"][t] = 0
  /\ \E h \in Hashes : Cardinality(RegisteredOn(agents, h, today(now))) = DAILY_LIMIT

\* the agents other than a that declare endpoint e
Declaring(e, a) ==
  {x \in Agents \ {a} : agents[x].present /\ agents[x].api_endpoint = e}

\* C20: when an endpoint verification succeeds for an endpoint that another
\* agent already declares, one endpoint_cluster signal is added for the
\* verified agent and for each agent declaring it; when no other agent
\* declares it, no signal is added; and two agents that share an endpoint
\* both hold an endpoint_cluster signal.
C20_EndpointCluster ==
  [][/\ \A r \in Suspended : \A c \in CodeFetches :
          (VerifyCodeUrl(r, CodeUrlKind(c)) /\ resp'.success) =>
             LET flagged == IF Declaring(r.apiEndpoint, r.agent) = {}
                            THEN {}
                            ELSE Declaring(r.apiEndpoint, r.agent) \cup {r.agent}
             IN \A x \in Agents : \A t \in SignalTypes :
                   sybil_signals'[x][t] =
                     IF x \in flagged /\ t = "endpoint_cluster"
                     THEN sybil_signals[x][t] + 1
                     ELSE sybil_signals[x][t]
     /\ \A x \in Agents : \A y \in Agents \ {x} :
          (/\ agents'[x].level >= 2 /\ agents'[y].level >= 2
           /\ agents'[x].api_endpoint = agents'[y].api_endpoint) =>
             /\ sybil_signals'[x]["endpoint_cluster"] >= 1
             /\ sybil_signals'[y]["endpoint_cluster"] >= 1]_vars

\* a2 has just verified the endpoint a1 declares, and both hold the signal
C20_Witness ==
  /\ resp = Response("verify", "a2", 200, TRUE, 2, -1, "")
  /\ agents["a1"].level = 2
  /\ agents["a2"].level = 2
  /\ agents["a1"].api_endpoint = agents["a2"].api_endpoint
  /\ sybil_signals["a1"]["endpoint_cluster"] = 1
  /\ sybil_signals["a2"]["endpoint_cluster"] = 1

\* every other agent declaring endpoint e is revoked, and there is one
OnlyRevokedDeclare(e, a) ==
  /\ Declaring(e, a) # {}
  /\ \A x \in Declaring(e, a) : agents[x].revoked = 1

\* C21 as stated: when the only other agents declaring the verified endpoint
\* are revoked, endpoint verification records no endpoint_cluster signal.
C21_RevokedNotCounted ==
  [][\A r \in Suspended : \A c \in CodeFetches :
       (/\ VerifyCodeUrl(r, CodeUrlKind(c))
        /\ resp'.success
        /\ OnlyRevokedDeclare(r.apiEndpoint, r.agent)) =>
          sybil_signals' = sybil_signals]_vars

\* C21: endpoint-cluster detection counts every other agent declaring the
\* endpoint, revoked or not: when the only other agents declaring the
\* verified endpoint are revoked, one endpoint_cluster signal is recorded
\* for the new agent and one for each of the revoked ones.
C21_RevokedCounted ==
  [][\A r \in Suspended : \A c \in CodeFetches :
       (/\ VerifyCodeUrl(r, CodeUrlKind(c))
        /\ resp'.success
        /\ OnlyRevokedDeclare(r.apiEndpoint, r.agent)) =>
          \A x \in Declaring(r.apiEndpoint, r.agent) \cup {r.agent} :
             sybil_signals'[x]["endpoint_cluster"] =
               sybil_signals[x]["endpoint_cluster"] + 1]_vars

\* a2 has just verified the endpoint that only the revoked a1 declares
C21_Witness ==
  /\ resp = Response("verify", "a2", 200, TRUE, 2, -1, "")
  /\ agents["a1"].revoked = 1
  /\ agents["a1"].api_endpoint = agents["a2"].api_endpoint
  /\ agents["a2"].revoked = 0
  /\ sybil_signals["a1"]["endpoint_cluster"] = 1
  /\ sybil_signals["a2"]["endpoint_cluster"] = 1

\* C22: a behavioral request for an agent at level 2 (not revoked) that has
\* behavioral data raises the agent to level 3 whatever the uniqueness
\* score, and records one behavioral_similarity signal exactly when the
\* score is below 0.3 (and no other signal).
C22_SimilarityNeverBlocks ==
  [][\A a \in Agents : \A d \in BehavioralData :
       (/\ agents[a].present /\ agents[a].revoked = 0 /\ agents[a].level = 2
        /\ d.hasData
        /\ Behavioral(a, d.hasData, 1, d.score)) =>
          /\ agents'[a].level = 3
          /\ resp' = Response("behavioral", a, 200, TRUE, 3, -1, "")
          /\ ext'[a].fingerprint_uniqueness = d.score
          /\ \A x \in Agents : \A t \in SignalTypes :
                sybil_signals'[x][t] =
                  IF x = a /\ t = "behavioral_similarity" /\ d.score < SYBIL_THRESHOLD
                  THEN sybil_signals[x][t] + 1
                  ELSE sybil_signals[x][t]]_vars

\* a1 was raised to level 3 with a score below the threshold and holds the
\* signal
C22_Witness ==
  /\ resp = Response("behavioral", "a1", 200, TRUE, 3, -1, "")
  /\ agents["a1"].level = 3
  /\ ext["a1"].fingerprint_uniqueness = 2999
  /\ sybil_signals["a1"]["behavioral_similarity"] = 1

\* this step raises a from level 2 to level 3
BehavioralCommit(a) == agents[a].level = 2 /\ agents'[a].level = 3

\* the contents of fingerprints.json with nothing to compare a's features f
\* with: every other entry is missing or has no features
EmptyPopulations(a, f) ==
  {[n \in Registrants \cup Peers |->
      IF n = a THEN [kind |-> "features", features |-> f] ELSE e[n]] :
     e \in [Peers -> {x \in Entries : x.kind # "features"}]}

\* C23: the uniqueness score stored at the L3 transition is between 0 and 1
\* for every feature set and every comparison population, and the score of
\* the agent's features against an empty comparison population is exactly
\* 1.0.
C23_UniquenessInRange ==
  [][\A a \in Registrants :
       BehavioralCommit(a) =>
          /\ ext'[a].fingerprint_uniqueness \in 0..SCALE
          /\ \A F \in EmptyPopulations(a, ext'[a].fingerprint) :
                computeUniqueness(ext'[a].fingerprint, a, F) = SCALE]_vars

\* a1 was compared with peers of which one has other features, and got a
\* score strictly between 0 and 1
C23_Witness ==
  /\ agents["a1"].level = 3
  /\ ext["a1"].present
  /\ ext["a1"].fingerprint_uniqueness \in 1..(SCALE - 1)

AllOnes == [timing |-> SCALE, content |-> SCALE, topic |-> SCALE, combined |-> SCALE]

\* some entry of the distribution v is not zero
NonZero(v) == \E i \in 1..Len(v) : v[i] # 0

C25_ExpiryFollowsLevelChange ==
  [][\A a \in Agents :
       (agents'[a].present /\ (~agents[a].present \/ agents'[a].level # agents[a].level)) =>
          agents'[a].expires_at = now + EXPIRY_DAYS * DAY_MS]_vars

\* what a client sees of step A for agent a, and what it leaves in the
\* agent's row, is the same after this step as before it
SameOutcome(A, a) ==
  /\ \A st \in {0, 200, 201, 400, 403, 404, 409, 429, 502} :
        (ENABLED (A /\ resp'.status = st))' = ENABLED (A /\ resp'.status = st)
  /\ \A l \in Levels :
        (ENABLED (A /\ agents'[a].level = l /\ agents'[a].revoked = 0))'
          = ENABLED (A /\ agents'[a].level = l /\ agents'[a].revoked = 0)
  /\ \A n \in 0..1 :
        (ENABLED (A /\ BagCardinality(inflight') = n))'
          = ENABLED (A /\ BagCardinality(inflight') = n)

\* C26: signals are advisory.  Two states that differ only in the recorded
\* signals give every transition request, and every continuation of a
\* suspended one, the same answer, the same resulting level and the same
\* suspension; and no step of the handlers changes a revoked flag.
C26_SignalsAdvisory ==
  [][/\ \A a \in Agents : agents'[a].revoked = agents[a].revoked
     /\ (\E a \in Registrants, t \in SignalTypes : RecordSignal(a, t)) =>
          \A a \in Registrants :
             /\ \A ip \in Origins : SameOutcome(Register(a, ip), a)
             /\ SameOutcome(ConfirmStart(a, Serial), a)
             /\ \A o \in {"throw", "notfound", "found"} :
                   SameOutcome(\E r \in Suspended : r.agent = a /\ ConfirmForum(r, o), a)
             /\ \A e \in Endpoints : SameOutcome(VerifyStart(a, e, Serial), a)
             /\ \A w \in WellKnownResults :
                   SameOutcome(\E r \in Suspended :
                                  r.agent = a /\ VerifyWellKnown(r, w.kind, w.idOk, w.tok), a)
             /\ \A kind \in {"throw", "bad", "ok"} :
                   SameOutcome(\E r \in Suspended : r.agent = a /\ VerifyCodeUrl(r, kind), a)
             /\ \A d \in BehavioralData : SameOutcome(Behavioral(a, d.hasData, 1, d.score), a)
             /\ \A p \in Providers : \A d \in Devices :
                   SameOutcome(DepinStart(a, p, d, Serial), a)
             /\ \A found \in BOOLEAN :
                   SameOutcome(\E r \in Suspended : r.agent = a /\ DepinDevice(r, found), a)
             /\ \A sig \in BOOLEAN :
                   SameOutcome(\E r \in Suspended : r.agent = a /\ DepinAnchor(r, sig), a)
             /\ \A i \in MobileInputs : \A pk \in Pubkeys :
                   SameOutcome(MobileStart(a, i.keyOk, i.len64, i.nonce,
                                           IF i.byKey THEN pk ELSE 0, pk, Serial), a)
             /\ \A sig \in BOOLEAN :
                   SameOutcome(\E r \in Suspended : r.agent = a /\ MobileAnchor(r, sig), a)]_vars

\* a1 holds a signal of every type and has reached level 5 all the same
C26_Witness ==
  /\ agents["a1"].level = 5
  /\ agents["a1"].revoked = 0
  /\ \A t \in SignalTypes : sybil_signals["a1"][t] >= 1

\* the registration of agentId from ip created one level-0 row and nothing else
Registered(agentId, ip) ==
  /\ getAllAgents' = getAllAgents \cup {agentId}
  /\ \A x \in getAllAgents : agents'[x] = agents[x]
  /\ agents'[agentId].level = 0
  /\ agents'[agentId].revoked = 0
  /\ agents'[agentId].challenge_code # 0
  /\ agents'[agentId].challenge_token = 0
  /\ resp'.status = 201
  /\ UNCHANGED <<ext, pending_anchors, inflight, anchors>>

\* the texts of 3 to 64 letters, digits, hyphens and underscores
WellFormedTexts == {"abc", "a_9", "agent-001", Long64}

\* the registration of agentId was refused as a bad request and kept nothing
Refused(agentId) ==
  /\ resp'.status = 400
  /\ ~agents'[agentId].present
  /\ UNCHANGED <<dbvars, challenges, issued, inflight, anchors>>

\* C27 as stated: a registration with a well-formed, unregistered id within
\* quota creates exactly one agent at level 0, not revoked, with a challenge
\* code and no token, and starts no anchor; one with a malformed id is
\* refused and keeps nothing.
C27_RegistrationCreatesAgent ==
  [][\A agentId \in AgentIdTexts : \A acceptTerms \in BOOLEAN : \A ip \in QuotaOrigins :
       RegisterRequest(agentId, acceptTerms, ip) =>
          /\ (/\ agentId \in WellFormedTexts
              /\ ~agents[agentId].present
              /\ countRegistrationsFromIp(agents, hashIp(ip, now), now) < DAILY_LIMIT)
                => Registered(agentId, ip)
          /\ agentId \notin WellFormedTexts => Refused(agentId)]_vars

\* C27, amended: the same of a registration that accepts the terms of
\* service; one that does not is refused like a malformed one.
C27_RegistrationWithTerms ==
  [][\A agentId \in AgentIdTexts : \A acceptTerms \in BOOLEAN : \A ip \in QuotaOrigins :
       RegisterRequest(agentId, acceptTerms, ip) =>
          /\ (/\ agentId \in WellFormedTexts
              /\ acceptTerms
              /\ ~agents[agentId].present
              /\ countRegistrationsFromIp(agents, hashIp(ip, now), now) < DAILY_LIMIT)
                => Registered(agentId, ip)
          /\ (agentId \in WellFormedTexts /\ ~acceptTerms /\ ~agents[agentId].present)
                => Refused(agentId)
          /\ agentId \notin WellFormedTexts => Refused(agentId)]_vars

\* the 64-character id has a row, the 65-character one has just been refused
C27_Witness ==
  /\ agents[Long64].present
  /\ agents[Long64].level = 0
  /\ agents[Long64].challenge_code # 0
  /\ agents["agent-001"].present
  /\ ~agents[Long65].present
  /\ resp = Response("register", Long65, 400, FALSE, -1, -1, "agentId_format")

C29_SignatureAttached ==
  [][/\ \A a \in Agents : \A k \in 1..3 :
          AnchorSettle(a, k, TRUE) =>
             /\ agents'[a].on_chain_sig = Sig(k)
             /\ pending_anchors' = pending_anchors
     /\ \A r \in Suspended :
          /\ DepinAnchor(r, TRUE) =>
                /\ ext'[r.agent].depin_on_chain_sig = Sig(4)
                /\ pending_anchors' = pending_anchors
          /\ MobileAnchor(r, TRUE) =>
                /\ ext'[r.agent].mobile_on_chain_sig = Sig(5)
                /\ pending_anchors' = pending_anchors]_vars

\* every ledger write of a1 has succeeded: the L3 signature is on its row,
\* the L4 and L5 signatures on its extended row, and nothing is pending
C29_Witness ==
  /\ agents["a1"].level = 5
  /\ agents["a1"].on_chain_sig = Sig(3)
  /\ ext["a1"].depin_on_chain_sig = Sig(4)
  /\ ext["a1"].mobile_on_chain_sig = Sig(5)
  /\ \A k \in 1..3 : anchors["a1"][k] = 0 /\ pending_anchors["a1"][k] = <<>>

\* C30: once every ledger write dispatched for an agent's transitions to L1,
\* L2 and L3 has completed, all of them successfully, the signature on the
\* agent's row is that of the anchor of the highest of these transitions,
\* in whatever order the writes completed.  (An agent that is not revoked
\* has seen no restart of the process, so none of its writes was dropped.)
C30_HighestAnchorWins ==
  \A a \in Agents :
     (/\ agents[a].level >= 1
      /\ agents[a].revoked = 0
      /\ \A k \in 1..3 : anchors[a][k] = 0 /\ pending_anchors[a][k] = <<>>)
        => agents[a].on_chain_sig = Sig(IF agents[a].level > 3 THEN 3 ELSE agents[a].level)

\* C31: the memo kept in a pending-anchor entry is the memo of the failed
\* ledger write it stands for.
C31_PendingMemoIsSentMemo ==
  [][\A r \in Suspended :
       AnchorThen(r, FALSE) =>
          pending_anchors'[Len(pending_anchors')].memo = r.sent]_vars

C34_TokenPersistent ==
  [][\A a \in Agents :
       agents[a].challenge_token # 0 =>
          agents'[a].challenge_token = agents[a].challenge_token]_vars

\* C35: a mobile verification attempt that fails on the device key, on the
\* signature's length or on the signature itself leaves the agent at level 4
\* and the stored challenge as it was, unused and unexpired, so that a
\* valid signature over the same nonce, sent next, verifies.
C35_FailedAttemptKeepsChallenge ==
  [][\A a \in Agents :
       (/\ MobileAttempt(a)
        /\ resp' \in {MobileRejection(a, e) :
                        e \in {"invalid_pubkey", "invalid_length", "bad_signature"}}) =>
          /\ UNCHANGED <<dbvars, challenges, inflight, anchors>>
          /\ agents'[a].level = 4
          /\ challenges'[a].present
          /\ ~challenges'[a].used
          /\ now' <= challenges'[a].expiresAt
          /\ HasRoom(MaxInFlight) =>
               \A pk \in Pubkeys :
                  (ENABLED (/\ MobileStart(a, TRUE, TRUE, challenges[a].challenge,
                                           pk, pk, MaxInFlight)
                            /\ MobileVerified(a)))']_vars

\* a1 at level 4 has just sent a signature that does not verify while an
\* earlier request of it awaits its anchor: the newer challenge is unused
C35_Witness ==
  /\ resp = MobileRejection("a1", "bad_signature")
  /\ agents["a1"].level = 4
  /\ challenges["a1"].present
  /\ ~challenges["a1"].used
  /\ now <= challenges["a1"].expiresAt
  /\ BagCardinality(inflight) = 1

\* C36: an agent has one extended row (one per agent_id, the table's key):
\* it is created by a commit at L3 or above, every agent at L3 or above has
\* it, and it is never deleted; the L4 commit changes only the
\* row's hardware-binding fields and the L5 commit only its mobile fields,
\* so the fingerprint and uniqueness written at L3 stay as they were.
C36_ExtendedRowUpdatedInPlace ==
  [][\A a \in Agents :
       /\ (~ext[a].present /\ ext'[a].present) => agents'[a].level >= 3
       /\ agents'[a].level >= 3 => ext'[a].present
       /\ ext[a].present => ext'[a].present
       /\ (agents[a].level # 4 /\ agents'[a].level = 4) =>
             ext'[a] = [ext[a] EXCEPT
                          !.depin_provider = ext'[a].depin_provider,
                          !.depin_device_pda = ext'[a].depin_device_pda,
                          !.depin_binding_hash = ext'[a].depin_binding_hash,
                          !.depin_on_chain_sig = ext'[a].depin_on_chain_sig]
       /\ (agents[a].level # 5 /\ agents'[a].level = 5) =>
             ext'[a] = [ext[a] EXCEPT
                          !.mobile_device_pubkey = ext'[a].mobile_device_pubkey,
                          !.mobile_verified = ext'[a].mobile_verified,
                          !.mobile_on_chain_sig = ext'[a].mobile_on_chain_sig]]_vars

\* a1 at level 5, flagged at L3 with uniqueness 0.2999, still has that score
\* and its fingerprint next to its hardware binding and its device key
C36_Witness ==
  /\ agents["a1"].level = 5
  /\ ext["a1"].fingerprint = 1
  /\ ext["a1"].fingerprint_uniqueness = 2999
  /\ ext["a1"].depin_provider # ""
  /\ ext["a1"].mobile_verified = 1
  /\ ext["a1"].mobile_device_pubkey # 0

\* C37: the label stored with an agent is the label of its stored level, and
\* the label in a status answer is the label of the level it reports, for
\* the levels 0 to 5 (registered, confirmed, verified, behavioral, hardware,
\* mobile).
C37_LabelsMatchLevel ==
  /\ \A a \in Agents :
        agents[a].present => agents[a].level_label = LEVEL_LABELS[agents[a].level]
  /\ (resp.op = "status" /\ resp.status = 200) =>
        resp.levelLabel = LEVEL_LABELS[resp.level]

\* C38: no core operation blocks indefinitely: every request that is waiting
\* for an external call (forum comment fetch, well-known-file fetch, code-URL
\* fetch, device-account read, ledger write) eventually gets its response,
\* because each such call either returns or times out after a finite time.
\* (As stated by the claim; a hardware request for a provider other than the
\* mock one waits on a device-account read that carries no timeout.)
C38_EveryRequestReturns ==
  \A op \in {"confirm", "verify", "depin", "mobile"} :
     (\E r \in Suspended : r.op = op) ~> (\A r \in Suspended : r.op # op)
====
